---- MODULE Spec2Model ----
(***************************************************************************)
(* morse-pro: the timing decoder (MorseDecoder), its adaptive subclass     *)
(* (MorseAdaptiveDecoder), the speed functions (morse-pro-wpm) and the     *)
(* morse -> text translation (morse-pro) the decoder calls on every flush. *)
(*                                                                         *)
(* A JavaScript number is modelled as <<n, d, u>>: the double nearest the   *)
(* rational n/d (d > 0, gcd(n, d) = 1), moved u units in the last place by *)
(* the rounding of the arithmetic that produced it (u = 0 unless stated).  *)
(* Durations passed to addTiming are integers (ms).                        *)
(* JavaScript strings are modelled as sequences of one-character strings.  *)
(***************************************************************************)
EXTENDS Integers, Sequences, FiniteSets, TLC

VARIABLES
    decoder,    \* the fields of the MorseDecoder / MorseAdaptiveDecoder object
    calls,      \* what the last operation invoked: flush, messageCallback, speedCallback
    op,         \* the last operation called on the decoder and its argument
    recent,     \* the latest uninterrupted run of addTiming calls: argument and effect
    nops,       \* number of operations performed so far
    script,     \* the timings a sender produced for the decoder (round trip)
    pos,        \* how many timings of the script have been fed
    cw,         \* the fields of the MorseCW object (a MorseMessage with a speed)
    player,     \* the fields of the MorsePlayerWAA object, its timers and its clock
    keyer,      \* the fields of the MorseKeyer / MorseIambicKeyer object and its timer
    listener    \* the filter properties of the MorseListener object

vars == <<decoder, calls, op, recent, nops, script, pos, cw, player, keyer, listener>>

\* the objects a run of the decoder does not have
others == <<cw, player, keyer, listener>>
NoObject == "none"
NoOthers == cw = NoObject /\ player = NoObject /\ keyer = NoObject /\ listener = NoObject

-----------------------------------------------------------------------------
(* Bounds of the model *)

\* operations performed on one decoder
MaxOps == 5
\* look-back of the recorded run of addTiming arguments
MaxRecent == 3
\* length of a sender's script of timings
ScriptLen == 7
\* operations performed on one decoder whose speed is changed
MaxSpeedOps == 3
\* operations performed on one adaptive decoder
MaxAdaptOps == 5
\* tones of a steady sender, each followed by a silence
SteadyPairs == 16
\* tones of the first character of a sender whose message goes on after it
TokenLen == 4
\* operations performed on one MorseCW object
MaxCwOps == 3
\* calls made on one MorsePlayerWAA object
MaxPlayerOps == 4
\* steps of TickMs milliseconds the clock of one audio context takes
MaxTicks == 4

-----------------------------------------------------------------------------
(* JavaScript numbers *)

Abs(x) == IF x < 0 THEN -x ELSE x

RECURSIVE GCD(_, _)
GCD(a, b) == IF b = 0 THEN a ELSE GCD(b, a % b)

\* v, the operands a and b evaluated before it (JavaScript evaluates the operands
\* of an operation first)
evaluated(a, b, v) == IF a = a /\ b = b THEN v ELSE v

\* the rational n/d (d # 0) in lowest terms with a positive denominator
Rat(n, d) ==
    LET s == IF d < 0 THEN -1 ELSE 1
        g == GCD(Abs(n), Abs(d))
    IN  <<(s * n) \div g, (s * d) \div g, 0>>

Num(n) == <<n, 1, 0>>

\* the arithmetic cancels common factors before it multiplies
Add(a, b) ==
    LET g == GCD(a[2], b[2])
    IN  evaluated(a, b,
            Rat(a[1] * (b[2] \div g) + b[1] * (a[2] \div g), (a[2] \div g) * b[2]))
Sub(a, b) == Add(a, <<-b[1], b[2], 0>>)
Mul(a, b) ==
    LET g == GCD(Abs(a[1]), b[2])
        h == GCD(Abs(b[1]), a[2])
    IN  evaluated(a, b,
            Rat((a[1] \div g) * (b[1] \div h), (a[2] \div h) * (b[2] \div g)))
Div(a, b) == Mul(a, IF b[1] < 0 THEN <<-b[2], -b[1], 0>> ELSE <<b[2], b[1], 0>>)
\* a < b and a <= b: equal rationals are ordered by their units in the last place
Lt(a, b) ==
    LET g == GCD(a[2], b[2])
        x == a[1] * (b[2] \div g)
        y == b[1] * (a[2] \div g)
    IN  evaluated(a, b, x < y \/ (x = y /\ a[3] < b[3]))
Le(a, b) ==
    LET g == GCD(a[2], b[2])
        x == a[1] * (b[2] \div g)
        y == b[1] * (a[2] \div g)
    IN  evaluated(a, b, x < y \/ (x = y /\ a[3] <= b[3]))
MaxNum(a, b) == IF Lt(a, b) THEN b ELSE a

\* Math.round: the nearest integer, halves towards +Infinity
Round(a) == Num((2 * a[1] + a[2]) \div (2 * a[2]))

\* NaN, written 0/0, and isNaN of a number
NaN == <<0, 0, 0>>
isNaN(x) == x[2] = 0

-----------------------------------------------------------------------------
(* IEEE-754 binary64 arithmetic (round to nearest, ties to even) on the     *)
(* operands of fwpm(wpm, r).  A double is [m, e]: 53 significand bits, most *)
(* significant first and the first one set, and the exponent of that bit.   *)

\* schoolbook division of the bits (continuing from remainder r) by c, the
\* sequence of bits taken half by half
RECURSIVE longDivision(_, _, _)
longDivision(bits, c, r) ==
    IF bits = <<>> THEN [bits |-> <<>>, rem |-> r]
    ELSE IF Len(bits) = 1
    THEN LET t == 2 * r + bits[1]
             b == IF t >= c THEN 1 ELSE 0
         IN  [bits |-> <<b>>, rem |-> t - b * c]
    ELSE LET half == Len(bits) \div 2
             high == longDivision(SubSeq(bits, 1, half), c, r)
             low  == longDivision(SubSeq(bits, half + 1, Len(bits)), c, high.rem)
         IN  evaluated(high, high, [bits |-> high.bits \o low.bits, rem |-> low.rem])

reverse(bits) == [i \in 1..Len(bits) |-> bits[Len(bits) + 1 - i]]

\* n in binary, least significant bit first
RECURSIVE binary(_)
binary(n) == IF n = 0 THEN <<>> ELSE <<n % 2>> \o binary(n \div 2)

\* schoolbook multiplication by c of bits given least significant first, the
\* sequence of bits taken half by half
RECURSIVE longMultiplication(_, _, _)
longMultiplication(bits, c, carried) ==
    IF bits = <<>> THEN [bits |-> <<>>, carry |-> carried]
    ELSE IF Len(bits) = 1
    THEN LET t == bits[1] * c + carried
         IN  [bits |-> <<t % 2>>, carry |-> t \div 2]
    ELSE LET half == Len(bits) \div 2
             low  == longMultiplication(SubSeq(bits, 1, half), c, carried)
             high == longMultiplication(SubSeq(bits, half + 1, Len(bits)), c, low.carry)
         IN  evaluated(low, low, [bits |-> low.bits \o high.bits, carry |-> high.carry])

RECURSIVE stripZeros(_)
stripZeros(bits) ==
    IF bits # <<>> /\ Head(bits) = 0 THEN stripZeros(Tail(bits)) ELSE bits

zeros(n) == [i \in 1..n |-> 0]

\* bits + 1, for bits that are not all set
increment(bits) ==
    LET k == CHOOSE i \in 1..Len(bits) :
                 bits[i] = 0 /\ \A j \in (i + 1)..Len(bits) : bits[j] = 1
    IN  SubSeq(bits, 1, k - 1) \o <<1>> \o zeros(Len(bits) - k)

\* the double nearest 1.bits * 2^e, where more bits follow iff sticky
roundToDouble(bits, sticky, e) ==
    LET m      == SubSeq(bits, 1, 53)
        guard  == IF Len(bits) > 53 THEN bits[54] ELSE 0
        more   == sticky \/ \E i \in 55..Len(bits) : bits[i] = 1
        up     == guard = 1 /\ (more \/ m[53] = 1)
    IN  evaluated(bits, e,
            IF ~up THEN [m |-> m, e |-> e]
            ELSE IF \A i \in 1..53 : m[i] = 1
                 THEN [m |-> <<1>> \o zeros(52), e |-> e + 1]
                 ELSE [m |-> increment(m), e |-> e])

\* n and d scaled by powers of two until 1 <= n/d < 2
RECURSIVE normalise(_, _, _)
normalise(n, d, e) ==
    IF n >= 2 * d THEN normalise(n, 2 * d, e + 1)
    ELSE IF n < d THEN normalise(2 * n, d, e - 1)
    ELSE [n |-> n, d |-> d, e |-> e]

\* n / d for whole numbers n, d > 0
quotientDouble(n, d) ==
    LET k == normalise(n, d, 0)
        q == longDivision(zeros(54), k.d, k.n - k.d)
    IN  evaluated(k, q, roundToDouble(<<1>> \o q.bits, q.rem # 0, k.e))

\* x * c and x / c for a double x and a small whole number c > 0
timesDouble(x, c) ==
    LET p    == longMultiplication(reverse(x.m), c, 0)
        bits == reverse(p.bits \o binary(p.carry))
    IN  evaluated(x, bits, roundToDouble(bits, FALSE, x.e + Len(bits) - 53))

overDouble(x, c) ==
    LET q    == longDivision(x.m \o zeros(10), c, 0)
        bits == stripZeros(q.bits)
    IN  evaluated(x, bits, roundToDouble(bits, q.rem # 0, x.e - 62 + (Len(bits) - 1)))

greaterDouble(a, b) ==
    \/ a.e > b.e
    \/ /\ a.e = b.e
       /\ \E i \in 1..53 : a.m[i] > b.m[i] /\ \A j \in 1..(i - 1) : a.m[j] = b.m[j]

\* the sum of two halves: the low bits, then the high bits and their carry
joinHalves(low, high) == [bits |-> low.bits \o high.bits, carry |-> high.carry]

\* schoolbook addition of bits given least significant first, x and y of one
\* length, the sequences taken half by half
RECURSIVE addBits(_, _, _)
addBits(x, y, carried) ==
    IF x = <<>> THEN [bits |-> <<>>, carry |-> carried]
    ELSE IF Len(x) = 1
    THEN LET t == x[1] + y[1] + carried
         IN  [bits |-> <<t % 2>>, carry |-> t \div 2]
    ELSE LET half == Len(x) \div 2
             low  == addBits(SubSeq(x, 1, half), SubSeq(y, 1, half), carried)
         IN  IF low.carry = 0
             THEN joinHalves(low, addBits(SubSeq(x, half + 1, Len(x)),
                                          SubSeq(y, half + 1, Len(y)), 0))
             ELSE joinHalves(low, addBits(SubSeq(x, half + 1, Len(x)),
                                          SubSeq(y, half + 1, Len(y)), 1))

\* the bits of the double x from the weight 2^(lo - 52) up, n of them
alignedBits(x, lo, n) ==
    zeros(x.e - lo) \o reverse(x.m) \o zeros(n - 53 - (x.e - lo))

\* a + b for doubles a, b > 0
plusDouble(a, b) ==
    LET lo   == IF a.e < b.e THEN a.e ELSE b.e
        n    == 53 + (IF a.e < b.e THEN b.e - a.e ELSE a.e - b.e)
        sum  == addBits(alignedBits(a, lo, n), alignedBits(b, lo, n), 0)
        bits == stripZeros(reverse(sum.bits \o <<sum.carry>>))
    IN  evaluated(a, b, evaluated(sum, bits,
            roundToDouble(bits, FALSE, lo - 52 + Len(bits) - 1)))

\* the bits below the most significant one, least significant first
lowBits(bits) == SubSeq(bits, 1, Len(bits) - 1)

complement(bits) == [i \in 1..Len(bits) |-> 1 - bits[i]]

\* bits made 53 long by zeros that follow them
padded(bits) == IF Len(bits) < 53 THEN bits \o zeros(53 - Len(bits)) ELSE bits

\* the double of the difference whose bits, most significant first, are given
\* from the weight 2^(lo - 52) up
differenceDouble(bits, lo) ==
    roundToDouble(padded(bits), FALSE, lo - 52 + Len(bits) - 1)

\* a - b for doubles a > b > 0
minusDouble(a, b) ==
    LET lo == IF a.e < b.e THEN a.e ELSE b.e
        n  == 53 + (IF a.e < b.e THEN b.e - a.e ELSE a.e - b.e)
    IN  evaluated(a, b,
            differenceDouble(
                stripZeros(reverse(addBits(alignedBits(a, lo, n),
                                           complement(alignedBits(b, lo, n)), 1).bits)),
                lo))

\* the number whose bits, least significant first, are given (a few bits)
RECURSIVE valueOf(_)
valueOf(bits) == IF bits = <<>> THEN 0 ELSE bits[1] + 2 * valueOf(Tail(bits))

\* the product of n more bits than its factor: its low bits, then its carry
chunkProduct(p, n) == p.bits \o binary(p.carry) \o zeros(n - Len(binary(p.carry)))

\* schoolbook multiplication of x by y, both least significant bit first, y
\* taken half by half down to pieces of 8 bits: Len(x) + Len(y) bits
RECURSIVE mulBits(_, _)
mulBits(x, y) ==
    IF Len(y) <= 8
    THEN chunkProduct(longMultiplication(x, valueOf(y), 0), Len(y))
    ELSE LET half == Len(y) \div 2
             low  == mulBits(x, SubSeq(y, 1, half))
             high == mulBits(x, SubSeq(y, half + 1, Len(y)))
         IN  evaluated(low, high,
                 addBits(low \o zeros(Len(y) - half), zeros(half) \o high, 0).bits)

\* the double of the product whose bits, most significant first, are given
productDouble(bits, e) == roundToDouble(bits, FALSE, e + Len(bits) - 1)

\* a * b for doubles a, b > 0
multiplyDouble(a, b) ==
    evaluated(a, b,
        productDouble(stripZeros(reverse(mulBits(reverse(a.m), reverse(b.m)))),
                      a.e + b.e - 104))

\* one step of the division by d, given r and r - d (as r + ~d + 1, whose carry
\* tells that r >= d): the next bit of the quotient and twice what is left
divisionStep(r, difference) ==
    IF difference.carry = 1
    THEN [bits |-> <<1>>, rem |-> <<0>> \o lowBits(difference.bits)]
    ELSE [bits |-> <<0>>, rem |-> <<0>> \o lowBits(r)]

\* n steps of the division of r by d, taken half by half; notd is ~d
RECURSIVE divisionSteps(_, _, _)
divisionSteps(r, notd, n) ==
    IF n = 1 THEN divisionStep(r, addBits(r, notd, 1))
    ELSE LET high == divisionSteps(r, notd, n \div 2)
             low  == divisionSteps(high.rem, notd, n - n \div 2)
         IN  evaluated(high, high, [bits |-> high.bits \o low.bits, rem |-> low.rem])

\* the double of the quotient q (its bits from the weight 2^e down, and what is left)
quotientOf(q, e) ==
    roundToDouble(stripZeros(q.bits), \E i \in 1..Len(q.rem) : q.rem[i] = 1,
                  e - (Len(q.bits) - Len(stripZeros(q.bits))))

\* a / b for doubles a, b > 0
divideDouble(a, b) ==
    evaluated(a, b,
        quotientOf(divisionSteps(reverse(a.m) \o <<0, 0>>,
                                 complement(reverse(b.m) \o <<0, 0>>), 56),
                   a.e - b.e))

\* the double next to x: u = 1 above it, u = -1 below it
nudge(x, u) ==
    IF u = 0 THEN x
    ELSE IF u = 1
    THEN (IF \A i \in 1..53 : x.m[i] = 1 THEN [m |-> <<1>> \o zeros(52), e |-> x.e + 1]
          ELSE [m |-> increment(x.m), e |-> x.e])
    ELSE (IF \A i \in 2..53 : x.m[i] = 0 THEN [m |-> [i \in 1..53 |-> 1], e |-> x.e - 1]
          ELSE [m |-> complement(increment(complement(x.m))), e |-> x.e])

\* x / 2
halfDouble(x) == [x EXCEPT !.e = @ - 1]

\* 1, 0 or -1 as the double a is above, equal to or below the double b
compareDouble(a, b) ==
    evaluated(a, b,
        IF greaterDouble(a, b) THEN 1 ELSE IF greaterDouble(b, a) THEN -1 ELSE 0)

\* is d a power of two: a whole number over d is a double when it is small
isPowerOfTwo(d) == \E k \in 0..30 : d = 2 ^ k

-----------------------------------------------------------------------------
(* morse-pro-wpm: the speed functions *)

DITS_PER_WORD == 50
SPACES_IN_PARIS == 19
MS_IN_MINUTE == 60000

\* the double that a number stands for
toDouble(x) == evaluated(x, x, nudge(quotientDouble(x[1], x[2]), x[3]))

\* Math.round(x) for a double x that is at, or a few ulps from, the half `exact`
roundHalf(x, exact) ==
    evaluated(x, exact,
        IF greaterDouble(quotientDouble(exact[1], 2), x)
        THEN Num(exact[1] \div 2) ELSE Num(exact[1] \div 2 + 1))

\* _ditLength(wpm)
ditLengthExact(w) == Div(Div(Num(MS_IN_MINUTE), Num(DITS_PER_WORD)), w)

\* _ditLength(wpm) in doubles
ditLengthDouble(W) == divideDouble(quotientDouble(MS_IN_MINUTE, DITS_PER_WORD), W)

\* ditLength(wpm); the rounding of the division is followed where it decides the
\* result of Math.round, which is when the exact quotient is a half
ditLength(w) ==
    evaluated(w, w,
        IF ditLengthExact(w)[2] = 2
        THEN roundHalf(ditLengthDouble(toDouble(w)), ditLengthExact(w))
        ELSE Round(ditLengthExact(w)))

\* wpm(ditLen)
wpmOf(ditLen) == Div(Div(Num(MS_IN_MINUTE), Num(DITS_PER_WORD)), ditLen)

ratio(w, f) ==
    Div(Sub(Mul(Num(DITS_PER_WORD), w), Mul(Num(DITS_PER_WORD - SPACES_IN_PARIS), f)),
        Mul(Num(SPACES_IN_PARIS), f))

\* ratio(wpm, fwpm) in doubles
ratioDouble(W, F) ==
    divideDouble(minusDouble(timesDouble(W, DITS_PER_WORD),
                             timesDouble(F, DITS_PER_WORD - SPACES_IN_PARIS)),
                 timesDouble(F, SPACES_IN_PARIS))

\* _fditLength(wpm, fwpm)
fditLengthExact(w, f) == Mul(ditLengthExact(w), ratio(w, f))

\* _fditLength(wpm, fwpm) in doubles
fditLengthDouble(W, F) == multiplyDouble(ditLengthDouble(W), ratioDouble(W, F))

\* fditLength(wpm, fwpm); the roundings are followed where they decide the result
\* of Math.round, which is when the exact product is a half
fditLength(w, f) ==
    evaluated(w, f,
        IF fditLengthExact(w, f)[2] = 2
        THEN roundHalf(fditLengthDouble(toDouble(w), toDouble(f)), fditLengthExact(w, f))
        ELSE Round(fditLengthExact(w, f)))

\* fwpm(wpm, r) where r = 1 and wpm is the double of 1200 / ditLen for a whole
\* ditLen: DITS_PER_WORD * wpm is rounded, then divided by SPACES_IN_PARIS * 1 +
\* (DITS_PER_WORD - SPACES_IN_PARIS) and rounded again; the result against wpm
fwpmUlps(w) ==
    LET W == quotientDouble(w[1], w[2])
        F == overDouble(timesDouble(W, DITS_PER_WORD),
                        SPACES_IN_PARIS * 1 + (DITS_PER_WORD - SPACES_IN_PARIS))
    IN  evaluated(W, F,
            IF greaterDouble(F, W) THEN 1 ELSE IF greaterDouble(W, F) THEN -1 ELSE 0)

\* fwpm(wpm, r); the rounding is followed where it decides the order of the result
\* and wpm, which is when r = 1 (the exact quotient is then wpm itself)
fwpmOf(w, r) ==
    LET q == Div(Mul(Num(DITS_PER_WORD), w),
                 Add(Mul(Num(SPACES_IN_PARIS), r), Num(DITS_PER_WORD - SPACES_IN_PARIS)))
    IN  IF r = Num(1) /\ w[1] > 0 /\ w[3] = 0 /\ ditLengthExact(w)[2] = 1
        THEN <<q[1], q[2], fwpmUlps(w)>>
        ELSE q

\* fwpm(wpm, r) in doubles
fwpmDouble(W, R) ==
    divideDouble(timesDouble(W, DITS_PER_WORD),
                 plusDouble(timesDouble(R, SPACES_IN_PARIS),
                            quotientDouble(DITS_PER_WORD - SPACES_IN_PARIS, 1)))

\* Math.round(c * x) for a whole c, where x is the exact value of the double X; the
\* roundings are followed where they decide the result, which is when the exact
\* product is a half
roundedTimes(c, x, X) ==
    evaluated(x, x,
        IF Mul(Num(c), x)[2] = 2
        THEN roundHalf(multiplyDouble(quotientDouble(c, 1), X), Mul(Num(c), x))
        ELSE Round(Mul(Num(c), x)))

\* dahLength(wpm)
dahLength(w) == roundedTimes(3, ditLengthExact(w), ditLengthDouble(toDouble(w)))

\* ditSpace(wpm)
ditSpace(w) == ditLength(w)

\* charSpace(wpm, fwpm)
charSpace(w, f) ==
    roundedTimes(3, fditLengthExact(w, f), fditLengthDouble(toDouble(w), toDouble(f)))

\* wordSpace(wpm, fwpm)
wordSpace(w, f) ==
    roundedTimes(7, fditLengthExact(w, f), fditLengthDouble(toDouble(w), toDouble(f)))

-----------------------------------------------------------------------------
(* morse-pro: the dictionaries and the morse -> text translation *)

\* text2morseH, one <<text, morse>> row per key in source order
text2morseH == <<
    <<<<"A">>, ".-">>,
    <<<<"B">>, "-...">>,
    <<<<"C">>, "-.-.">>,
    <<<<"D">>, "-..">>,
    <<<<"E">>, ".">>,
    <<<<"F">>, "..-.">>,
    <<<<"G">>, "--.">>,
    <<<<"H">>, "....">>,
    <<<<"I">>, "..">>,
    <<<<"J">>, ".---">>,
    <<<<"K">>, "-.-">>,
    <<<<"L">>, ".-..">>,
    <<<<"M">>, "--">>,
    <<<<"N">>, "-.">>,
    <<<<"O">>, "---">>,
    <<<<"P">>, ".--.">>,
    <<<<"Q">>, "--.-">>,
    <<<<"R">>, ".-.">>,
    <<<<"S">>, "...">>,
    <<<<"T">>, "-">>,
    <<<<"U">>, "..-">>,
    <<<<"V">>, "...-">>,
    <<<<"W">>, ".--">>,
    <<<<"X">>, "-..-">>,
    <<<<"Y">>, "-.--">>,
    <<<<"Z">>, "--..">>,
    <<<<"1">>, ".----">>,
    <<<<"2">>, "..---">>,
    <<<<"3">>, "...--">>,
    <<<<"4">>, "....-">>,
    <<<<"5">>, ".....">>,
    <<<<"6">>, "-....">>,
    <<<<"7">>, "--...">>,
    <<<<"8">>, "---..">>,
    <<<<"9">>, "----.">>,
    <<<<"0">>, "-----">>,
    <<<<".">>, ".-.-.-">>,
    <<<<",">>, "--..--">>,
    <<<<":">>, "---...">>,
    <<<<"?">>, "..--..">>,
    <<<<"'">>, ".----.">>,
    <<<<"-">>, "-....-">>,
    <<<<"/">>, "-..-.">>,
    <<<<"(">>, "-.--.-">>,
    <<<<")">>, "-.--.-">>,
    <<<<"\"">>, ".-..-.">>,
    <<<<"@">>, ".--.-.">>,
    <<<<"=">>, "-...-">>,
    <<<<" ">>, "/">>
>>

\* prosign2morseH, one <<prosign, morse>> row per key in source order
prosign2morseH == <<
    <<<<"<", "A", "A", ">">>, ".-.-">>,
    <<<<"<", "A", "R", ">">>, ".-.-.">>,
    <<<<"<", "A", "S", ">">>, ".-...">>,
    <<<<"<", "B", "K", ">">>, "-...-.-">>,
    <<<<"<", "B", "T", ">">>, "-...-">>,
    <<<<"<", "C", "L", ">">>, "-.-..-..">>,
    <<<<"<", "C", "T", ">">>, "-.-.-">>,
    <<<<"<", "D", "O", ">">>, "-..---">>,
    <<<<"<", "K", "N", ">">>, "-.--.">>,
    <<<<"<", "S", "K", ">">>, "...-.-">>,
    <<<<"<", "V", "A", ">">>, "...-.-">>,
    <<<<"<", "S", "N", ">">>, "...-.">>,
    <<<<"<", "V", "E", ">">>, "...-.">>,
    <<<<"<", "S", "O", "S", ">">>, "...---...">>
>>

\* the loops that fill morse2textH and morsepro2textH: a later key with the same
\* morse overwrites an earlier one, so a lookup finds the last row with that morse
lookup(rows, m) ==
    LET hits == {i \in 1..Len(rows) : rows[i][2] = m}
    IN  IF hits = {} THEN "undefined"
        ELSE rows[CHOOSE i \in hits : \A j \in hits : j <= i][1]

morse2textH(m) == lookup(text2morseH, m)

morsepro2textH(m) == lookup(text2morseH \o prosign2morseH, m)

\* the JavaScript string made of the characters of s
RECURSIVE join(_)
join(s) == IF s = <<>> THEN "" ELSE Head(s) \o join(Tail(s))

\* \s of the regular expressions
isSpace(c) == c \in {" ", "\t", "\n"}

\* String.prototype.trim, and replace(/^\s+/, "") / replace(/\s+$/, "")
RECURSIVE trimLeft(_)
trimLeft(s) == IF s # <<>> /\ isSpace(Head(s)) THEN trimLeft(Tail(s)) ELSE s

RECURSIVE trimRight(_)
trimRight(s) ==
    IF s # <<>> /\ isSpace(s[Len(s)]) THEN trimRight(SubSeq(s, 1, Len(s) - 1)) ELSE s

trim(s) == trimRight(trimLeft(s))

\* replace(/c/g, to) for a single character c and a replacement string to
RECURSIVE replaceChar(_, _, _)
replaceChar(s, c, to) ==
    IF s = <<>> THEN <<>>
    ELSE (IF Head(s) = c THEN to ELSE <<Head(s)>>) \o replaceChar(Tail(s), c, to)

\* replace(/\s+/g, " ")
RECURSIVE squashSpaces(_)
squashSpaces(s) ==
    IF s = <<>> THEN <<>>
    ELSE IF isSpace(Head(s)) THEN <<" ">> \o squashSpaces(trimLeft(s))
    ELSE <<Head(s)>> \o squashSpaces(Tail(s))

\* replace(/(\/ )+\//g, "/")
RECURSIVE squashSeparators(_)
squashSeparators(s) ==
    IF s = <<>> THEN <<>>
    ELSE IF Len(s) >= 3 /\ s[1] = "/" /\ s[2] = " " /\ s[3] = "/"
         THEN squashSeparators(SubSeq(s, 3, Len(s)))
    ELSE <<Head(s)>> \o squashSeparators(Tail(s))

tidyMorse(morse) ==
    LET m1 == trim(morse)
        m2 == replaceChar(m1, "|", <<"/">>)
        m3 == replaceChar(m2, "/", <<" ", "/", " ">>)
        m4 == squashSpaces(m3)
        m5 == squashSeparators(m4)
        m6 == trimRight(trimLeft(m5))
    IN  replaceChar(m6, "_", <<"-">>)

\* String.prototype.split(" "): the pieces between single spaces
RECURSIVE split(_, _)
split(s, cur) ==
    IF s = <<>> THEN <<cur>>
    ELSE IF Head(s) = " " THEN <<cur>> \o split(Tail(s), <<>>)
    ELSE split(Tail(s), Append(cur, Head(s)))

\* the loop of morse2text over the tokens, from ret
RECURSIVE translateTokens(_, _, _)
translateTokens(tokens, useProsigns, ret) ==
    IF tokens = <<>> THEN ret
    ELSE LET t == Head(tokens)
             c == IF useProsigns THEN morsepro2textH(join(t)) ELSE morse2textH(join(t))
         IN  translateTokens(Tail(tokens), useProsigns,
                IF c = "undefined"
                THEN [morse |-> ret.morse \o <<"#">> \o t \o <<"#", " ">>,
                      message |-> ret.message \o <<"#">>,
                      hasError |-> TRUE]
                ELSE [morse |-> ret.morse \o t \o <<" ">>,
                      message |-> ret.message \o c,
                      hasError |-> ret.hasError])

morse2text(morseIn, useProsigns) ==
    LET morse == tidyMorse(morseIn)
        ret == [morse |-> <<>>, message |-> <<>>, hasError |-> FALSE]
    IN  IF morse = <<>> THEN ret
        ELSE LET r == translateTokens(split(morse, <<>>), useProsigns, ret)
             IN  [r EXCEPT !.morse = SubSeq(r.morse, 1, Len(r.morse) - 1)]

-----------------------------------------------------------------------------
(* morse-pro: the text -> morse translation *)

\* the characters of a JavaScript string literal
chars(str) == [i \in 1..Len(str) |-> SubSeq(str, i, i)]

lowerCase == chars("abcdefghijklmnopqrstuvwxyz")
upperCase == chars("ABCDEFGHIJKLMNOPQRSTUVWXYZ")

\* String.prototype.toUpperCase
toUpperCase(s) ==
    [i \in 1..Len(s) |->
        IF \E k \in 1..Len(lowerCase) : lowerCase[k] = s[i]
        THEN upperCase[CHOOSE k \in 1..Len(lowerCase) : lowerCase[k] = s[i]]
        ELSE s[i]]

tidyText(text) == squashSpaces(trim(toUpperCase(text)))

\* the length of the match of /^<...?>/ in text (which holds no line break), or 1
\* when there is no match or prosigns are not used
tokenLength(text, useProsigns) ==
    IF useProsigns /\ text[1] = "<" /\ Len(text) >= 5 /\ text[5] = ">" THEN 5
    ELSE IF useProsigns /\ text[1] = "<" /\ Len(text) >= 4 /\ text[4] = ">" THEN 4
    ELSE 1

\* the while loop of text2morse: text cut into tokens
RECURSIVE textTokens(_, _)
textTokens(text, useProsigns) ==
    IF text = <<>> THEN <<>>
    ELSE <<SubSeq(text, 1, tokenLength(text, useProsigns))>>
         \o textTokens(SubSeq(text, tokenLength(text, useProsigns) + 1, Len(text)),
                       useProsigns)

\* whether dict[t] is defined, for the dictionary with the given rows
hasKey(rows, t) == \E i \in 1..Len(rows) : rows[i][1] = t

\* dict[t] for the dictionary with the given rows
lookupText(rows, t) ==
    IF hasKey(rows, t) THEN chars(rows[CHOOSE i \in 1..Len(rows) : rows[i][1] = t][2])
    ELSE "undefined"

\* text2morseproH holds the keys of text2morseH and those of prosign2morseH
text2morseDict(useProsigns) ==
    IF useProsigns THEN text2morseH \o prosign2morseH ELSE text2morseH

\* one round of the for loop of text2morse: token t, with c = dict[t], defined or not
textToken(ret, t, c, defined) ==
    IF ~defined
    THEN [morse |-> ret.morse \o <<"#", " ">>,
          message |-> ret.message \o <<"#">> \o t \o <<"#">>,
          hasError |-> TRUE]
    ELSE [morse |-> ret.morse \o c \o <<" ">>,
          message |-> ret.message \o t,
          hasError |-> ret.hasError]

\* the for loop of text2morse over the tokens, from ret
RECURSIVE translateText(_, _, _)
translateText(tokens, rows, ret) ==
    IF tokens = <<>> THEN ret
    ELSE evaluated(ret, ret,
             translateText(Tail(tokens), rows,
                           textToken(ret, Head(tokens), lookupText(rows, Head(tokens)),
                                     hasKey(rows, Head(tokens)))))

\* the end of text2morse: the last space is cut off
withoutLast(r) == [r EXCEPT !.morse = SubSeq(r.morse, 1, Len(r.morse) - 1)]

text2morse(textIn, useProsigns) ==
    IF tidyText(textIn) = <<>>
    THEN [morse |-> <<>>, message |-> <<>>, hasError |-> FALSE]
    ELSE withoutLast(translateText(textTokens(tidyText(textIn), useProsigns),
                                   text2morseDict(useProsigns),
                                   [morse |-> <<>>, message |-> <<>>, hasError |-> FALSE]))

looksLikeMorse(input) ==
    \A i \in 1..Len(tidyMorse(input)) : tidyMorse(input)[i] \in {" ", "/", ".", "-"}

-----------------------------------------------------------------------------
(* MorseDecoder: the speed setters *)

\* this.defaults
defaultWpm == 20
defaultFwpm == 20

\* The log of the running operation (s.log) records, in order, what it did that the
\* claims speak of: each call of flush with the buffer, message and record length it
\* found, each push to the buffer, and each call of the (empty by default) callbacks.
speedCallback(s) ==
    [s EXCEPT !.log = Append(@, [fn |-> "speedCallback", wpm |-> s.wpm, fwpm |-> s.fwpm])]

messageCallback(s, data) ==
    [s EXCEPT !.log = Append(@, [fn |-> "messageCallback", timings |-> data.timings,
                                 morse |-> data.morse, message |-> data.message])]

\* ((3 * x) + (7 * x)) / 2 in doubles, against the double 5 * x
midpointUlps(x) ==
    evaluated(x, x,
        compareDouble(halfDouble(plusDouble(timesDouble(x, 3), timesDouble(x, 7))),
                      timesDouble(x, 5)))

\* updateThresholds(): the roundings of 3 * _fditLen, of 7 * _fditLen and of their
\* sum, as ulps between the threshold and 5 * _fditLen; products and sum are exact
\* when _fditLen is a whole number over a power of two.  (The other threshold,
\* (1 * d + 3 * d) / 2, is the double 2 * d for every double d.)
dahSpaceUlps(f) ==
    IF isPowerOfTwo(f[2]) THEN 0 ELSE midpointUlps(quotientDouble(f[1], f[2]))

\* the midpoint with its rounding
roundedMidpoint(mid, f) == <<mid[1], mid[2], dahSpaceUlps(f)>>

updateThresholds(s) ==
    [s EXCEPT !.ditDahThreshold =
                  Div(Add(Mul(Num(1), s.ditLen), Mul(Num(3), s.ditLen)), Num(2)),
              !.dahSpaceThreshold =
                  roundedMidpoint(Div(Add(Mul(Num(3), s.fditLen), Mul(Num(7), s.fditLen)),
                                      Num(2)),
                                  s.fditLen)]

\* the value a speed setter stores: wpm = Math.max(wpm, 1)
atLeastOne(v) == MaxNum(v, Num(1))

\* set wpm: "if (this._fwpm === undefined || this._fwpm > wpm) this._fwpm = this._wpm"
lowerFwpm(s) ==
    IF s.fwpm = "undefined" \/ Lt(s.wpm, s.fwpm) THEN [s EXCEPT !.fwpm = s.wpm] ELSE s

\* set wpm / set fwpm: "this._ditLen = WPM.ditLength(this._wpm);
\* this._fditLen = WPM.fditLength(this._wpm, this._fwpm)"
unitLengths(s) ==
    [s EXCEPT !.ditLen = ditLength(s.wpm), !.fditLen = fditLength(s.wpm, s.fwpm)]

\* a wpm setter that falls back to the minimum speed instead of the default
setWpmMinimum(s, wpmArg) ==
    speedCallback(updateThresholds(unitLengths(lowerFwpm(
        [s EXCEPT !.wpm = atLeastOne(IF isNaN(wpmArg) THEN Num(1) ELSE wpmArg)]))))

\* set wpm(wpm)
setWpm(s, wpmArg) ==
    speedCallback(updateThresholds(unitLengths(lowerFwpm(
        [s EXCEPT !.wpm = atLeastOne(IF isNaN(wpmArg) THEN Num(defaultWpm) ELSE wpmArg)]))))

\* set fwpm: "if (this._wpm === undefined || this._wpm < fwpm) this.wpm = fwpm"
raiseWpm(s) ==
    IF s.wpm = "undefined" \/ Lt(s.wpm, s.fwpm) THEN setWpm(s, s.fwpm) ELSE s

\* set fwpm(fwpm)
setFwpm(s, fwpmArg) ==
    speedCallback(updateThresholds(unitLengths(raiseWpm(
        [s EXCEPT !.fwpm = atLeastOne(IF isNaN(fwpmArg) THEN Num(defaultFwpm)
                                      ELSE fwpmArg)]))))

\* set ditLen: "if (this._fditLen === undefined || this._fditLen < this._ditLen)
\* this._fditLen = this._ditLen"
raiseFditLen(s) ==
    IF s.fditLen = "undefined" \/ Lt(s.fditLen, s.ditLen)
    THEN [s EXCEPT !.fditLen = s.ditLen] ELSE s

\* set fditLen: "if (this._ditLen === undefined || this._ditLen > this._fditLen)
\* this._ditLen = this._fditLen"
lowerDitLen(s) ==
    IF s.ditLen = "undefined" \/ Lt(s.fditLen, s.ditLen)
    THEN [s EXCEPT !.ditLen = s.fditLen] ELSE s

\* set ditLen / set fditLen: "this._wpm = WPM.wpm(this._ditLen)"
derivedWpm(s) == [s EXCEPT !.wpm = wpmOf(s.ditLen)]

\* set ditLen / set fditLen:
\* "this._fwpm = WPM.fwpm(this._wpm, this._fditLen / this._ditLen)"
derivedFwpm(s) == [s EXCEPT !.fwpm = fwpmOf(s.wpm, Div(s.fditLen, s.ditLen))]

\* set ditLen(dit)
setDitLen(s, dit) ==
    updateThresholds(derivedFwpm(derivedWpm(raiseFditLen([s EXCEPT !.ditLen = dit]))))

\* an fditLen setter that leaves the thresholds as they were
setFditLenStale(s, fdit) ==
    derivedFwpm(derivedWpm(lowerDitLen([s EXCEPT !.fditLen = fdit])))

\* set fditLen(fdit)
setFditLen(s, fdit) ==
    updateThresholds(derivedFwpm(derivedWpm(lowerDitLen([s EXCEPT !.fditLen = fdit]))))

\* new MorseDecoder(wpm, fwpm) and, with class "MorseAdaptiveDecoder",
\* new MorseAdaptiveDecoder(wpm, fwpm, bufferSize); a speed "undefined" takes the
\* parameter's default, and bufferSize is a number (30 by default)
construct(class, wpmArg, fwpmArg, bufferSizeArg) ==
    LET w  == IF wpmArg = "undefined" THEN Num(20) ELSE wpmArg
        f  == IF fwpmArg = "undefined" THEN w ELSE fwpmArg
        s0 == [class |-> class,
               wpm |-> "undefined", fwpm |-> "undefined",
               ditLen |-> "undefined", fditLen |-> "undefined",
               ditDahThreshold |-> "undefined", dahSpaceThreshold |-> "undefined",
               timings |-> <<>>, characters |-> <<>>, unusedTimes |-> <<>>,
               noiseThreshold |-> 1, morse |-> <<>>, message |-> <<>>,
               bufferSize |-> bufferSizeArg,
               ditLengths |-> <<>>, fditLengths |-> <<>>, lockSpeed |-> FALSE,
               log |-> <<>>]
    IN  setFwpm(setWpm(s0, w), f)

-----------------------------------------------------------------------------
(* MorseDecoder / MorseAdaptiveDecoder: addDecode *)

\* MorseDecoder.addDecode
baseAddDecode(s, duration, character) ==
    [s EXCEPT !.timings = Append(@, duration), !.characters = Append(@, character)]

\* Array.prototype.slice(-n), n > 0
sliceLast(a, n) == IF Len(a) <= n THEN a ELSE SubSeq(a, Len(a) - n + 1, Len(a))

\* the loop of MorseAdaptiveDecoder.addDecode over the indices i .. bufferSize - 1:
\* <<sum, denom>> of the defined entries of the window, entry i weighted i + 1
\* (the indices taken half by half)
RECURSIVE weightedSum(_, _, _)
weightedSum(window, i, bufferSize) ==
    IF i >= bufferSize THEN <<Num(0), 0>>
    ELSE IF i + 1 = bufferSize
    THEN LET weight == i + 1
         IN  IF i + 1 <= Len(window) /\ window[i + 1] # "undefined"
             THEN <<Mul(window[i + 1], Num(weight)), weight>>
             ELSE <<Num(0), 0>>
    ELSE LET mid  == (i + bufferSize) \div 2
             low  == weightedSum(window, i, mid)
             high == weightedSum(window, mid, bufferSize)
         IN  evaluated(low, high, <<Add(low[1], high[1]), low[2] + high[2]>>)

\* MorseAdaptiveDecoder.addDecode: the switch, `dit` and `fdit`
ditSample(duration, character) ==
    CASE character = "." -> Num(duration)
      [] character = "-" -> Div(Num(duration), Num(3))
      [] character = ""  -> Num(duration)
      [] OTHER -> "undefined"

fditSample(duration, character) ==
    IF character = " " THEN Div(Num(duration), Num(3)) ELSE "undefined"

\* an addDecode that takes no sample while the speed is locked
pushSamplesUnlocked(s, dit, fdit) ==
    IF s.lockSpeed THEN s
    ELSE [s EXCEPT !.ditLengths = sliceLast(Append(@, dit), s.bufferSize),
                   !.fditLengths = sliceLast(Append(@, fdit), s.bufferSize)]

\* MorseAdaptiveDecoder.addDecode: the two pushes and the two slices
pushSamples(s, dit, fdit) ==
    [s EXCEPT !.ditLengths = sliceLast(Append(@, dit), s.bufferSize),
              !.fditLengths = sliceLast(Append(@, fdit), s.bufferSize)]

\* "if (fDenom) this.fditLen = fSum / fDenom"
recalibrateFditLen(s, fSums) ==
    IF fSums[2] # 0 THEN setFditLen(s, Div(fSums[1], Num(fSums[2]))) ELSE s

\* "if (denom) this.ditLen = sum / denom"
recalibrateDitLen(s, sums) ==
    IF sums[2] # 0 THEN setDitLen(s, Div(sums[1], Num(sums[2]))) ELSE s

\* MorseAdaptiveDecoder.addDecode from "var sum = 0": the sums over both windows,
\* the two assignments and the call of speedCallback
recalibrate(s) ==
    speedCallback(
        recalibrateDitLen(
            recalibrateFditLen(s, weightedSum(s.fditLengths, 0, s.bufferSize)),
            weightedSum(s.ditLengths, 0, s.bufferSize)))

\* "if (this.lockSpeed) { return; }"
unlessLocked(s) == IF s.lockSpeed THEN s ELSE recalibrate(s)

\* an addDecode that recalibrates whether the speed is locked or not
adaptiveAddDecodeUnlocked(s, duration, character) ==
    recalibrate(pushSamples(baseAddDecode(s, duration, character),
                            ditSample(duration, character),
                            fditSample(duration, character)))

\* an addDecode that takes the samples and leaves the estimates as they are
adaptiveAddDecodeDeferred(s, duration, character) ==
    pushSamples(baseAddDecode(s, duration, character),
                ditSample(duration, character),
                fditSample(duration, character))

\* MorseAdaptiveDecoder.addDecode
adaptiveAddDecode(s, duration, character) ==
    unlessLocked(pushSamples(baseAddDecode(s, duration, character),
                             ditSample(duration, character),
                             fditSample(duration, character)))

\* the speed fields and the averaging windows of a decoder
estimates(s) ==
    [wpm |-> s.wpm, fwpm |-> s.fwpm, ditLen |-> s.ditLen, fditLen |-> s.fditLen,
     ditDahThreshold |-> s.ditDahThreshold, dahSpaceThreshold |-> s.dahSpaceThreshold,
     ditLengths |-> s.ditLengths, fditLengths |-> s.fditLengths,
     lockSpeed |-> s.lockSpeed]

\* the log entry of one call of addDecode that took the decoder from s to r
decoded(s, duration, character, r) ==
    [r EXCEPT !.log = Append(@, [fn |-> "addDecode", duration |-> duration,
                                 character |-> character,
                                 before |-> estimates(s), after |-> estimates(r)])]

\* getTimings(character): the recorded durations classified as `character`
RECURSIVE decoderGetTimings(_, _, _)
decoderGetTimings(s, character, i) ==
    IF i > Len(s.timings) THEN <<>>
    ELSE (IF s.characters[i] = character THEN <<s.timings[i]>> ELSE <<>>)
         \o decoderGetTimings(s, character, i + 1)

\* get dits, get dahs, get ditSpaces, get dahSpaces, get spaces
dits(s) == decoderGetTimings(s, ".", 1)
dahs(s) == decoderGetTimings(s, "-", 1)
ditSpaces(s) == decoderGetTimings(s, "", 1)
dahSpaces(s) == decoderGetTimings(s, " ", 1)
spaces(s) == decoderGetTimings(s, "/", 1)

\* this.addDecode, dispatched on the class of the object
addDecode(s, duration, character) ==
    decoded(s, duration, character,
            IF s.class = "MorseAdaptiveDecoder"
            THEN adaptiveAddDecode(s, duration, character)
            ELSE baseAddDecode(s, duration, character))

-----------------------------------------------------------------------------
(* MorseDecoder: timings2morse, flush, addTiming *)

\* a classification that sends boundary values to the shorter class
classifyShorter(s, d) ==
    IF d > 0
    THEN IF Le(Num(d), s.ditDahThreshold) THEN "." ELSE "-"
    ELSE IF Le(Num(-d), s.ditDahThreshold) THEN ""
         ELSE IF Le(Num(-d), s.dahSpaceThreshold) THEN " "
         ELSE "/"

\* a classification without the word space: every long silence ends a character
classifyNoWordSpace(s, d) ==
    IF d > 0
    THEN IF Lt(Num(d), s.ditDahThreshold) THEN "." ELSE "-"
    ELSE IF Lt(Num(-d), s.ditDahThreshold) THEN "" ELSE " "

\* the body of the loop of timings2morse: the character for one duration d
classify(s, d) ==
    IF d > 0
    THEN IF Lt(Num(d), s.ditDahThreshold) THEN "." ELSE "-"
    ELSE IF Lt(Num(-d), s.ditDahThreshold) THEN ""
         ELSE IF Lt(Num(-d), s.dahSpaceThreshold) THEN " "
         ELSE "/"

\* a pass of the loop that records the duration with its sign
oneTimingSigned(s, d, c, ditdah) ==
    [s |-> addDecode(s, d, c),
     ditdah |-> IF c = "" THEN ditdah ELSE Append(ditdah, c)]

\* one pass of the loop of timings2morse for the duration d classified as c;
\* the character "" adds nothing to the string
oneTiming(s, d, c, ditdah) ==
    [s |-> addDecode(s, Abs(d), c),
     ditdah |-> IF c = "" THEN ditdah ELSE Append(ditdah, c)]

\* timings2morse(times): the decoder after the loop and the string returned;
\* the loop runs over the first half of the durations, then over the rest
RECURSIVE timings2morseFrom(_, _, _)
timings2morseRest(done, times) ==
    evaluated(done, done, timings2morseFrom(done.s, times, done.ditdah))

timings2morseFrom(s, times, ditdah) ==
    IF times = <<>> THEN [s |-> s, ditdah |-> ditdah]
    ELSE IF Len(times) = 1
         THEN oneTiming(s, times[1], classify(s, times[1]), ditdah)
         ELSE timings2morseRest(
                  timings2morseFrom(s, SubSeq(times, 1, Len(times) \div 2), ditdah),
                  SubSeq(times, Len(times) \div 2 + 1, Len(times)))

timings2morse(s, times) == timings2morseFrom(s, times, <<>>)

\* a flush that keeps the quiet after a decoded space
discardNothing(s) == s

\* a flush that ignores the quiet after a decoded space only when nothing follows it
discardLeadingAlone(s) ==
    IF s.message # <<>> /\ s.message[Len(s.message)] = " "
       /\ Len(s.unusedTimes) = 1 /\ s.unusedTimes[1] < 0
    THEN [s EXCEPT !.unusedTimes = Tail(@)] ELSE s

\* flush(): "if last character decoded was a space then just ignore additional quiet"
discardLeading(s) ==
    IF s.message # <<>> /\ s.message[Len(s.message)] = " "
       /\ s.unusedTimes # <<>> /\ s.unusedTimes[1] < 0
    THEN [s EXCEPT !.unusedTimes = Tail(@)] ELSE s

\* a flush that holds back only a silence shorter than a character space
holdsBackCharacter(s, last) == last < 0 /\ Lt(Num(-last), s.ditDahThreshold)

\* flush(): is the last buffered entry a silence that "could grow to a word space"
holdsBack(s, last) == last < 0 /\ Lt(Num(-last), s.dahSpaceThreshold)

\* a flush that puts nothing back
restoredNothing(last) == <<>>

\* a flush that puts the last entry back whatever its sign
restoredAlways(last) == <<last>>

\* flush(): the buffer left for the next round
restored(last) == IF last < 0 THEN <<last>> ELSE <<>>

\* flush(): the buffer handed to timings2morse
unheld(s, last) ==
    IF holdsBack(s, last) THEN SubSeq(s.unusedTimes, 1, Len(s.unusedTimes) - 1)
    ELSE s.unusedTimes

\* a flush that stops at a fragment it cannot translate: nothing appended, the
\* buffer kept, no event
appendDecodedHalting(s, last, u, m, t) ==
    IF \E i \in 1..Len(t) : t[i] = "#" THEN s
    ELSE messageCallback([s EXCEPT !.morse = @ \o m, !.message = @ \o t,
                                   !.unusedTimes = restored(last)],
                         [timings |-> u, morse |-> m, message |-> t])

\* a flush whose event carries the buffer as it is left for the next round
appendDecodedLeft(s, last, u, m, t) ==
    messageCallback([s EXCEPT !.morse = @ \o m, !.message = @ \o t,
                              !.unusedTimes = restored(last)],
                    [timings |-> restored(last), morse |-> m, message |-> t])

\* flush(): the end, from "this.morse += m": s is the decoder after timings2morse,
\* u the timings it was given, m the morse and t the text they gave
appendDecoded(s, last, u, m, t) ==
    messageCallback([s EXCEPT !.morse = @ \o m, !.message = @ \o t,
                              !.unusedTimes = restored(last)],
                    [timings |-> u, morse |-> m, message |-> t])

\* flush(): r is what timings2morse(u) gave
translateDecoded(r, last, u) ==
    appendDecoded(r.s, last, u, r.ditdah, morse2text(r.ditdah, TRUE).message)

\* flush(): from "var last", on a buffer that is not empty
decodeBuffer(s, last) ==
    translateDecoded(timings2morse([s EXCEPT !.unusedTimes = unheld(s, last)],
                                   unheld(s, last)),
                     last, unheld(s, last))

\* flush(): after the leading quiet is dealt with
decodeUnused(s) ==
    IF s.unusedTimes = <<>> THEN s
    ELSE decodeBuffer(s, s.unusedTimes[Len(s.unusedTimes)])

\* flush()
flush(s) ==
    decodeUnused(discardLeading(
        [s EXCEPT !.log = Append(@, [fn |-> "flush", unusedTimes |-> s.unusedTimes,
                                     message |-> s.message,
                                     recorded |-> Len(s.timings)])]))

\* an addTiming that adds to the previous duration without popping it
pushTimingNoPop(s, durationArg) ==
    LET n == Len(s.unusedTimes)
        last == s.unusedTimes[n]
        duration == IF n > 0 /\ durationArg * last > 0 THEN last + durationArg
                    ELSE IF n > 0 /\ Abs(durationArg) <= s.noiseThreshold
                         THEN last - durationArg
                    ELSE durationArg
    IN  [s EXCEPT !.unusedTimes = Append(@, duration),
                  !.log = Append(@, [fn |-> "push", duration |-> duration])]

\* addTiming(duration): the buffer after the merge with its last entry and the push
pushTiming(s, durationArg) ==
    LET n == Len(s.unusedTimes)
        last == s.unusedTimes[n]
        merged == n > 0 /\ (durationArg * last > 0
                            \/ Abs(durationArg) <= s.noiseThreshold)
        duration == IF n > 0 /\ durationArg * last > 0 THEN last + durationArg
                    ELSE IF n > 0 /\ Abs(durationArg) <= s.noiseThreshold
                         THEN last - durationArg
                    ELSE durationArg
    IN  [s EXCEPT !.unusedTimes = Append(IF merged THEN SubSeq(@, 1, n - 1) ELSE @, duration),
                  !.log = Append(@, [fn |-> "push", duration |-> duration])]

\* an addTiming that flushes only on a silence longer than the threshold
endsCharacterStrict(s, duration) == Lt(s.ditDahThreshold, Num(-duration))

\* addTiming(duration): "if we have just received a character space or longer"
endsCharacter(s, duration) == Le(s.ditDahThreshold, Num(-duration))

\* addTiming(duration): after the push
flushIfEnded(s) ==
    IF endsCharacter(s, s.unusedTimes[Len(s.unusedTimes)]) THEN flush(s) ELSE s

\* an addTiming that treats a zero duration like any other
addTimingZero(s, durationArg) == flushIfEnded(pushTiming(s, durationArg))

\* addTiming(duration)
addTiming(s, durationArg) ==
    IF durationArg = 0 THEN s ELSE flushIfEnded(pushTiming(s, durationArg))

-----------------------------------------------------------------------------
(* The decoder driven by one caller *)

\* durations (ms) a signal source passes to addTiming
Durations == {-300, -120, -60, -1, 0, 1, 60, 120}

\* the (wpm, fwpm) pairs a decoder is constructed with
InitSpeeds == {<<Num(20), "undefined">>, <<Num(10), Num(10)>>}

\* the object's fields at the start of an operation, with the operation's empty log
begin == [f \in DOMAIN decoder \cup {"log"} |-> IF f = "log" THEN <<>> ELSE decoder[f]]

fields(s) == [f \in DOMAIN s \ {"log"} |-> s[f]]

\* the log entries of one kind, in order
RECURSIVE logged(_, _)
logged(log, fn) ==
    IF log = <<>> THEN <<>>
    ELSE (IF Head(log).fn = fn THEN <<Head(log)>> ELSE <<>>) \o logged(Tail(log), fn)

\* the entry an addTiming call pushed to the buffer
pushedBy(log) == logged(log, "push")[1].duration

NoOp == [name |-> "new", arg |-> "undefined"]

Init ==
    /\ \E sp \in InitSpeeds :
           decoder = fields(construct("MorseDecoder", sp[1], sp[2], 30))
    /\ calls = <<>>
    /\ op = NoOp
    /\ recent = <<>>
    /\ nops = 0
    /\ script = <<>>
    /\ pos = 0
    /\ NoOthers

\* the operation `name` was called with `arg` and left the decoder, with its log, as r
Called(name, arg, r) ==
    /\ decoder' = fields(r)
    /\ calls' = r.log
    /\ op' = [name |-> name, arg |-> arg]
    /\ UNCHANGED others

AddTiming(d) ==
    /\ nops < MaxOps
    /\ Called("addTiming", d, addTiming(begin, d))
    /\ recent' = IF d = 0 THEN recent
                 ELSE sliceLast(Append(recent, [arg |-> d, pushed |-> pushedBy(calls'),
                                                flushed |-> logged(calls', "flush") # <<>>]),
                                MaxRecent)
    /\ nops' = nops + 1
    /\ UNCHANGED <<script, pos>>

Flush ==
    /\ nops < MaxOps
    /\ Called("flush", "undefined", flush(begin))
    /\ recent' = <<>>
    /\ nops' = nops + 1
    /\ UNCHANGED <<script, pos>>

Next ==
    \/ \E d \in Durations : AddTiming(d)
    \/ Flush

Spec == Init /\ [][Next]_vars

-----------------------------------------------------------------------------
(* The decoder driven by one caller whose durations are kept: script holds every *)
(* duration passed to addTiming so far                                           *)

Hear(d) ==
    /\ nops < MaxOps
    /\ Called("addTiming", d, addTiming(begin, d))
    /\ script' = Append(script, d)
    /\ pos' = Len(script')
    /\ nops' = nops + 1
    /\ UNCHANGED recent

FlushHeard ==
    /\ nops < MaxOps
    /\ Called("flush", "undefined", flush(begin))
    /\ nops' = nops + 1
    /\ UNCHANGED <<script, pos, recent>>

NextHeard ==
    \/ \E d \in Durations : Hear(d)
    \/ FlushHeard

SpecHeard == Init /\ [][NextHeard]_vars

-----------------------------------------------------------------------------
(* The speed of a decoder: assignments to wpm, fwpm, ditLen and fditLen, and the *)
(* recalibration of a MorseAdaptiveDecoder by the timings it decodes             *)

Classes == {"MorseDecoder", "MorseAdaptiveDecoder"}

\* sizes of the averaging buffer of an adaptive decoder
BufferSizes == {1, 3}

\* values a caller assigns
Wpms == {Rat(1, 2), Num(10), NaN}
Fwpms == {Num(5), Num(30), NaN}
DitLens == {Num(45), Num(90)}
FditLens == {Num(50), Num(200), Rat(641, 10)}

\* durations (ms) of a sender that is slower than the decoder expects
SpeedDurations == {90, -90, -300}

InitSpeed ==
    /\ \E class \in Classes, size \in BufferSizes :
           decoder = fields(construct(class, "undefined", "undefined", size))
    /\ calls = <<>>
    /\ op = NoOp
    /\ recent = <<>>
    /\ nops = 0
    /\ script = <<>>
    /\ pos = 0
    /\ NoOthers

Assign(name, v, r) ==
    /\ nops < MaxSpeedOps
    /\ Called(name, v, r)
    /\ recent' = <<>>
    /\ nops' = nops + 1
    /\ UNCHANGED <<script, pos>>

SetWpm(v) == Assign("wpm", v, setWpm(begin, v))

SetFwpm(v) == Assign("fwpm", v, setFwpm(begin, v))

SetDitLen(v) == Assign("ditLen", v, setDitLen(begin, v))

SetFditLen(v) == Assign("fditLen", v, setFditLen(begin, v))

Decode(d) == nops < MaxSpeedOps /\ AddTiming(d)

FlushSpeed == nops < MaxSpeedOps /\ Flush

NextSpeed ==
    \/ \E v \in Wpms : SetWpm(v)
    \/ \E v \in Fwpms : SetFwpm(v)
    \/ \E v \in DitLens : SetDitLen(v)
    \/ \E v \in FditLens : SetFditLen(v)
    \/ \E d \in SpeedDurations : Decode(d)
    \/ FlushSpeed

SpecSpeed == InitSpeed /\ [][NextSpeed]_vars

-----------------------------------------------------------------------------
(* Construction with any arguments, followed by assignments to wpm and fwpm *)

\* the (wpm, fwpm) arguments of new MorseDecoder(...) / new MorseAdaptiveDecoder(...)
ConstructorArgs ==
    {<<"undefined", "undefined">>, <<Num(10), "undefined">>,
     <<NaN, "undefined">>, <<NaN, NaN>>, <<NaN, Num(5)>>, <<NaN, Num(30)>>,
     <<Num(10), NaN>>, <<Num(30), NaN>>, <<Num(30), Num(5)>>, <<Num(5), Num(30)>>,
     <<Rat(1, 2), "undefined">>, <<Num(25), Num(15)>>, <<Rat(32, 5), "undefined">>}

InitConstruct ==
    /\ \E class \in Classes, a \in ConstructorArgs :
           /\ decoder = fields(construct(class, a[1], a[2], 30))
           /\ op = [name |-> "new", arg |-> a]
    /\ calls = <<>>
    /\ recent = <<>>
    /\ nops = 0
    /\ script = <<>>
    /\ pos = 0
    /\ NoOthers

NextConstruct ==
    \/ \E v \in Wpms : SetWpm(v)
    \/ \E v \in Fwpms : SetFwpm(v)

SpecConstruct == InitConstruct /\ [][NextConstruct]_vars

-----------------------------------------------------------------------------
(* An adaptive decoder recalibrated by the timings it decodes, its speed locked *)
(* or not                                                                       *)

\* sizes of the averaging buffer
AdaptBufferSizes == {2, 3}

\* durations (ms) of a sender whose speed drifts: dits of 60 and 90, a dit space,
\* a character space and a word space
AdaptDurations == {60, 90, -60, -240, -420}

InitAdapt ==
    /\ \E size \in AdaptBufferSizes :
           decoder = fields(construct("MorseAdaptiveDecoder", "undefined", "undefined", size))
    /\ calls = <<>>
    /\ op = NoOp
    /\ recent = <<>>
    /\ nops = 0
    /\ script = <<>>
    /\ pos = 0
    /\ NoOthers

\* decoder.lockSpeed = v
SetLockSpeed(v) ==
    /\ nops < MaxAdaptOps
    /\ Called("lockSpeed", v, [begin EXCEPT !.lockSpeed = v])
    /\ recent' = <<>>
    /\ nops' = nops + 1
    /\ UNCHANGED <<script, pos>>

DecodeAdapt(d) == nops < MaxAdaptOps /\ AddTiming(d)

FlushAdapt == nops < MaxAdaptOps /\ Flush

NextAdapt ==
    \/ \E v \in BOOLEAN : SetLockSpeed(v)
    \/ \E d \in AdaptDurations : DecodeAdapt(d)
    \/ FlushAdapt

SpecAdapt == InitAdapt /\ [][NextAdapt]_vars

-----------------------------------------------------------------------------
(* Round trip: a sender's timings at 20 wpm fed to a decoder at 20 wpm, then flush() *)

\* the element lengths of a sender at 20 wpm: dit and dah; dit, character and word space
Tones == {60, 180}
Silences == {-60, -180, -420}

\* the timings of a message start with a tone and alternate tone and silence
Scripts ==
    LET odd == {i \in 1..ScriptLen : i % 2 = 1}
        even == {i \in 1..ScriptLen : i % 2 = 0}
    IN  {[i \in 1..ScriptLen |-> IF i \in odd THEN t[i] ELSE q[i]] :
            t \in [odd -> Tones], q \in [even -> Silences]}

InitRoundTrip ==
    /\ decoder = fields(construct("MorseDecoder", Num(20), Num(20), 30))
    /\ calls = <<>>
    /\ op = NoOp
    /\ recent = <<>>
    /\ nops = 0
    /\ script \in Scripts
    /\ pos = 0
    /\ NoOthers

Feed ==
    /\ pos < Len(script)
    /\ Called("addTiming", script[pos + 1], addTiming(begin, script[pos + 1]))
    /\ pos' = pos + 1
    /\ UNCHANGED <<recent, nops, script>>

FinalFlush ==
    /\ pos = Len(script)
    /\ op.name # "flush"
    /\ Called("flush", "undefined", flush(begin))
    /\ UNCHANGED <<recent, nops, script, pos>>

NextRoundTrip == Feed \/ FinalFlush

SpecRoundTrip == InitRoundTrip /\ [][NextRoundTrip]_vars

RoundTripDone == pos = Len(script) /\ op.name = "flush"

-----------------------------------------------------------------------------
(* Convergence: a steady sender at 20 wpm heard by an adaptive decoder that was *)
(* created for 10 wpm                                                           *)

\* the timings of a steady sender: one tone and one silence of 20 wpm, repeated
SteadyRuns ==
    {[i \in 1..(2 * SteadyPairs) |-> IF i % 2 = 1 THEN t ELSE q] :
        t \in Tones, q \in Silences}

InitSteady ==
    /\ decoder = fields(construct("MorseAdaptiveDecoder", Num(10), "undefined", 30))
    /\ calls = <<>>
    /\ op = NoOp
    /\ recent = <<>>
    /\ nops = 0
    /\ script \in SteadyRuns
    /\ pos = 0
    /\ NoOthers

NextSteady == Feed \/ FinalFlush

SpecSteady == InitSteady /\ [][NextSteady]_vars

-----------------------------------------------------------------------------
(* A character of TokenLen elements, in the dictionary or not, followed by a *)
(* space and one more character                                              *)

\* the timings of the first character: TokenLen tones with dit spaces between
firstCharacter(t) ==
    [i \in 1..(2 * TokenLen - 1) |-> IF i % 2 = 1 THEN t[(i + 1) \div 2] ELSE -60]

\* the first character, a character space or a word space, two more tones
GarbledScripts ==
    {firstCharacter(t) \o <<q, u, -60, v>> :
        t \in [1..TokenLen -> Tones], q \in {-180, -420}, u \in Tones, v \in Tones}

InitGarbled ==
    /\ decoder = fields(construct("MorseDecoder", Num(20), Num(20), 30))
    /\ calls = <<>>
    /\ op = NoOp
    /\ recent = <<>>
    /\ nops = 0
    /\ script \in GarbledScripts
    /\ pos = 0
    /\ NoOthers

NextGarbled == Feed \/ FinalFlush

SpecGarbled == InitGarbled /\ [][NextGarbled]_vars

-----------------------------------------------------------------------------
(* MorseMessage and MorseCW: a message with the speed it is sent at *)

\* new MorseMessage(useProsigns)
newMorseMessage(useProsigns) ==
    [useProsigns |-> useProsigns,
     input |-> <<>>, output |-> <<>>, morse |-> <<>>, message |-> <<>>,
     inputWasMorse |-> "undefined", hasError |-> "undefined"]

\* JavaScript a < b for numbers: false when either side is undefined
lessThan(a, b) == a # "undefined" /\ b # "undefined" /\ Lt(a, b)

\* a wpm setter that leaves fwpm alone
setCwWpmOnly(s, wpm) == [s EXCEPT !.wpm = wpm]

\* MorseCW: set wpm(wpm)
setCwWpm(s, wpm) ==
    IF lessThan(wpm, s.fwpm) THEN [s EXCEPT !.wpm = wpm, !.fwpm = wpm]
    ELSE [s EXCEPT !.wpm = wpm]

\* MorseCW: set fwpm(fwpm)
setCwFwpm(s, fwpm) ==
    IF lessThan(s.wpm, fwpm) THEN [s EXCEPT !.fwpm = fwpm, !.wpm = fwpm]
    ELSE [s EXCEPT !.fwpm = fwpm]

\* the fields of a MorseCW object before its constructor assigns the speeds
unsetMorseCW(message) ==
    [f \in DOMAIN message \cup {"wpm", "fwpm", "log"} |->
        IF f \in {"wpm", "fwpm"} THEN "undefined"
        ELSE IF f = "log" THEN <<>> ELSE message[f]]

\* new MorseCW(useProsigns, wpm, fwpm): an argument "undefined" takes its default
newMorseCW(useProsigns, wpm, fwpm) ==
    setCwFwpm(setCwWpm(unsetMorseCW(newMorseMessage(IF useProsigns = "undefined" THEN TRUE
                                                    ELSE useProsigns)),
                       IF wpm = "undefined" THEN Num(20) ELSE wpm),
              IF fwpm = "undefined" THEN (IF wpm = "undefined" THEN Num(20) ELSE wpm)
              ELSE fwpm)

\* a field or argument that is true, false or undefined is "true", "false" or
\* "undefined"
bool(b) == IF b THEN "true" ELSE "false"

\* MorseMessage.translate: whether the input is taken as morse
inputIsMorse(input, isMorse) ==
    IF isMorse = "undefined" THEN looksLikeMorse(input) ELSE isMorse = "true"

\* MorseMessage.translate: the translation of the input
translation(s, input, wasMorse) ==
    IF wasMorse THEN morse2text(input, s.useProsigns)
    ELSE text2morse(input, s.useProsigns)

\* MorseMessage.translate: the end of the call, throw or return
thrownOrReturned(s) ==
    [s EXCEPT !.log = Append(@, IF s.hasError = "true"
                                THEN [fn |-> "throw", value |-> chars("Error in input")]
                                ELSE [fn |-> "return", value |-> s.output])]

\* a translate that records the error and nothing else
assignedErrorOnly(s, wasMorse, t) == [s EXCEPT !.hasError = bool(t.hasError)]

\* MorseMessage.translate: the fields assigned from the translation t
assigned(s, wasMorse, t) ==
    [s EXCEPT !.inputWasMorse = bool(wasMorse),
              !.morse = t.morse,
              !.message = t.message,
              !.input = IF wasMorse THEN t.morse ELSE t.message,
              !.output = IF wasMorse THEN t.message ELSE t.morse,
              !.hasError = bool(t.hasError)]

\* MorseMessage.translate(input, isMorse)
translate(s, input, isMorse) ==
    thrownOrReturned(assigned(s, inputIsMorse(input, isMorse),
                              translation(s, input, inputIsMorse(input, isMorse))))

\* replace(/#[^#]*?#/g, ""): every '#' that has a later '#' goes with the text up
\* to the next '#'
RECURSIVE removeMarked(_)
removeMarked(s) ==
    IF s = <<>> THEN <<>>
    ELSE IF Head(s) = "#" /\ \E j \in 2..Len(s) : s[j] = "#"
         THEN removeMarked(SubSeq(s, 1 + (CHOOSE j \in 2..Len(s) :
                                             /\ s[j] = "#"
                                             /\ \A k \in 2..(j - 1) : s[k] # "#"),
                                  Len(s)))
    ELSE <<Head(s)>> \o removeMarked(Tail(s))

\* MorseMessage.clearError(); undefined is falsy
clearError(s) ==
    IF s.inputWasMorse = "true"
    THEN [s EXCEPT !.morse = replaceChar(@, "#", <<>>), !.hasError = "false"]
    ELSE [s EXCEPT !.message = removeMarked(@),
                   !.morse = replaceChar(@, "#", <<>>),
                   !.hasError = "false"]

\* replace(/ \/ /g, '/')
RECURSIVE joinWords(_)
joinWords(s) ==
    IF s = <<>> THEN <<>>
    ELSE IF Len(s) >= 3 /\ s[1] = " " /\ s[2] = "/" /\ s[3] = " "
         THEN <<"/">> \o joinWords(SubSeq(s, 4, Len(s)))
    ELSE <<Head(s)>> \o joinWords(Tail(s))

\* replace(/([\.\-])(?=[\.\-])/g, "$1+")
RECURSIVE plusBetween(_)
plusBetween(s) ==
    IF s = <<>> THEN <<>>
    ELSE IF Len(s) >= 2 /\ s[1] \in {".", "-"} /\ s[2] \in {".", "-"}
         THEN <<s[1], "+">> \o plusBetween(Tail(s))
    ELSE <<Head(s)>> \o plusBetween(Tail(s))

\* -x
negative(x) == Sub(Num(0), x)

\* the switch of getTimingsGeneral: what one character of the morse pushes
timesOf(dit, dah, ditSp, charSp, wordSp, c) ==
    IF c = "." THEN <<dit>>
    ELSE IF c = "-" THEN <<dah>>
    ELSE IF c = "+" THEN <<negative(ditSp)>>
    ELSE IF c = " " THEN <<negative(charSp)>>
    ELSE IF c = "/" THEN <<negative(wordSp)>>
    ELSE <<>>

\* the for loop of getTimingsGeneral, the morse taken half by half
RECURSIVE timesFrom(_, _, _, _, _, _)
timesFrom(dit, dah, ditSp, charSp, wordSp, morse) ==
    IF morse = <<>> THEN <<>>
    ELSE IF Len(morse) = 1 THEN timesOf(dit, dah, ditSp, charSp, wordSp, morse[1])
    ELSE timesFrom(dit, dah, ditSp, charSp, wordSp, SubSeq(morse, 1, Len(morse) \div 2))
         \o timesFrom(dit, dah, ditSp, charSp, wordSp,
                      SubSeq(morse, Len(morse) \div 2 + 1, Len(morse)))

\* MorseCW.getTimingsGeneral(dit, dah, ditSpace, charSpace, wordSpace, morse)
getTimingsGeneral(dit, dah, ditSp, charSp, wordSp, morse) ==
    timesFrom(dit, dah, ditSp, charSp, wordSp, plusBetween(joinWords(morse)))

\* MorseCW.getTimings()
getTimings(s) ==
    getTimingsGeneral(ditLength(s.wpm), dahLength(s.wpm), ditSpace(s.wpm),
                      charSpace(s.wpm, s.fwpm), wordSpace(s.wpm, s.fwpm), s.morse)

\* Math.abs
absNum(x) == IF Lt(x, Num(0)) THEN negative(x) ELSE x

\* the for loop of getDuration, from t, the times taken half by half
RECURSIVE durationFrom(_, _)
durationFrom(times, t) ==
    IF times = <<>> THEN t
    ELSE IF Len(times) = 1 THEN Add(t, absNum(times[1]))
    ELSE evaluated(t, t,
             durationFrom(SubSeq(times, Len(times) \div 2 + 1, Len(times)),
                          durationFrom(SubSeq(times, 1, Len(times) \div 2), t)))

\* MorseCW.getDuration()
getDuration(s) == durationFrom(getTimings(s), Num(0))

\* a call that returns v and leaves the object as it is
returned(s, v) == [s EXCEPT !.log = Append(@, [fn |-> "return", value |-> v])]

\* the inputs of translate(input, isMorse)
CwInputs ==
    {chars("PARIS"), chars("sos  k"), chars(". / ."), chars("a~b"), chars(".- ..--"),
     chars("<AA>"), chars("")}

\* the arguments of translate(input, isMorse): every input left to looksLikeMorse,
\* and some with isMorse given against it
CwTranslations ==
    {<<input, "undefined">> : input \in CwInputs}
        \cup {<<chars("PARIS"), "true">>, <<chars(". / ."), "false">>,
              <<chars(".- ..--"), "false">>, <<chars("a~b"), "false">>}

\* the (wpm, fwpm) arguments of new MorseCW(useProsigns, wpm, fwpm)
CwConstructorArgs ==
    {<<"undefined", "undefined">>, <<Num(30), "undefined">>, <<Num(20), Num(10)>>,
     <<Num(10), Num(20)>>}

\* speeds a caller assigns
CwSpeeds == {Num(7), Num(10), Num(15), Num(20), Num(40)}

\* the object's fields at the start of an operation, with the operation's empty log
beginCw == [f \in DOMAIN cw \cup {"log"} |-> IF f = "log" THEN <<>> ELSE cw[f]]

InitCW ==
    /\ \E a \in CwConstructorArgs :
           /\ cw = fields(newMorseCW("undefined", a[1], a[2]))
           /\ op = [name |-> "new", arg |-> a]
    /\ decoder = NoObject
    /\ player = NoObject
    /\ keyer = NoObject
    /\ listener = NoObject
    /\ calls = <<>>
    /\ recent = <<>>
    /\ nops = 0
    /\ script = <<>>
    /\ pos = 0

\* the operation `name` was called with `arg` and left the MorseCW object, with
\* its log, as r
CalledCw(name, arg, r) ==
    /\ nops < MaxCwOps
    /\ cw' = fields(r)
    /\ calls' = r.log
    /\ op' = [name |-> name, arg |-> arg]
    /\ nops' = nops + 1
    /\ UNCHANGED <<decoder, player, keyer, listener, recent, script, pos>>

SetCwWpm(v) == CalledCw("wpm", v, setCwWpm(beginCw, v))

SetCwFwpm(v) == CalledCw("fwpm", v, setCwFwpm(beginCw, v))

Translate(input, isMorse) ==
    CalledCw("translate", <<input, isMorse>>, translate(beginCw, input, isMorse))

ClearError == CalledCw("clearError", "undefined", clearError(beginCw))

GetWordSpace ==
    CalledCw("wordSpace", "undefined", returned(beginCw, wordSpace(cw.wpm, cw.fwpm)))

GetTimings == CalledCw("getTimings", "undefined", returned(beginCw, getTimings(beginCw)))

GetDuration ==
    CalledCw("getDuration", "undefined", returned(beginCw, getDuration(beginCw)))

NextCW ==
    \/ \E v \in CwSpeeds : SetCwWpm(v)
    \/ \E v \in CwSpeeds : SetCwFwpm(v)
    \/ \E a \in CwTranslations : Translate(a[1], a[2])
    \/ ClearError
    \/ GetWordSpace
    \/ GetTimings
    \/ GetDuration

SpecCW == InitCW /\ [][NextCW]_vars

-----------------------------------------------------------------------------
(* morse-pro-wpm called with a pair of speeds, fwpm <= wpm *)

\* the speeds the functions are called with
WpmInputs == {Num(3), Num(5), Rat(32, 5), Num(10), Num(13), Num(20), Num(50)}

InitWpm ==
    /\ \E w \in WpmInputs, f \in WpmInputs :
           /\ Le(f, w)
           /\ op = [name |-> "import", arg |-> <<w, f>>]
    /\ decoder = NoObject
    /\ cw = NoObject
    /\ player = NoObject
    /\ keyer = NoObject
    /\ listener = NoObject
    /\ calls = <<>>
    /\ recent = <<>>
    /\ nops = 0
    /\ script = <<>>
    /\ pos = 0

\* the function `name` was called on the speeds and returned v
Applied(name, v) ==
    /\ op' = [op EXCEPT !.name = name]
    /\ calls' = <<[fn |-> "return", value |-> v]>>
    /\ UNCHANGED <<decoder, cw, player, keyer, listener, recent, nops, script, pos>>

\* ratio(wpm, fwpm)
CallRatio == Applied("ratio", ratioDouble(toDouble(op.arg[1]), toDouble(op.arg[2])))

\* fwpm(wpm, ratio(wpm, fwpm))
CallFwpm ==
    Applied("fwpm", fwpmDouble(toDouble(op.arg[1]),
                               ratioDouble(toDouble(op.arg[1]), toDouble(op.arg[2]))))

\* ditLength(wpm)
CallDitLength == Applied("ditLength", ditLength(op.arg[1]))

\* fditLength(wpm, fwpm)
CallFditLength == Applied("fditLength", fditLength(op.arg[1], op.arg[2]))

\* wpm(ditLength(wpm))
CallWpm == Applied("wpm", wpmOf(ditLength(op.arg[1])))

NextWpm == CallRatio \/ CallFwpm \/ CallDitLength \/ CallFditLength \/ CallWpm

SpecWpm == InitWpm /\ [][NextWpm]_vars

-----------------------------------------------------------------------------
(* MorsePlayerWAA: a sequence of timings played through a Web Audio context.  *)
(* Times are whole milliseconds (the code keeps them in seconds); `now` is    *)
(* audioContext.currentTime, which starts at 0 when the context is created.   *)
(* The audio graph, the volume and the frequency do not steer the player and  *)
(* are left out.                                                              *)

\* a time, or the NaN that arithmetic on an undefined value gives
time(n) == [nan |-> FALSE, ms |-> n]
NaNTime == [nan |-> TRUE, ms |-> 0]
plusTime(a, n) == IF a.nan THEN a ELSE time(a.ms + n)

\* the step of the clock between two events
TickMs == 100
\* _lookAheadTime and _timerInterval
lookAheadTime == 100
timerInterval == 50

\* a timer that is not set, and setTimeout(f, delay) called at `now`: a delay
\* that is NaN or negative counts as 0
NoTimer == [set |-> FALSE, due |-> 0]
timeout(now, delay) ==
    [set |-> TRUE, due |-> IF delay.nan \/ delay.ms < 0 THEN now ELSE now + delay.ms]

\* new MorsePlayerWAA() where window.AudioContext exists.  isNote, sequenceLength,
\* _nextNote, _tZero and _soundEndTime are undefined until load and playFromStart
\* assign them: no code reads the first two before, -1 stands for the undefined
\* index and NaN for the undefined times; sequenceStartCallbackFired is undefined,
\* which is falsy
newMorsePlayerWAA ==
    [noAudio |-> FALSE, loop |-> FALSE, startPadding |-> 0, endPadding |-> 0,
     cTimings |-> <<>>, isNote |-> <<>>, sequenceLength |-> 0, upNext |-> "undefined",
     isPlaying |-> FALSE, isPaused |-> FALSE, nextNote |-> -1,
     tZero |-> NaNTime, soundEndTime |-> NaNTime,
     notPlayedANote |-> TRUE, sequenceStartCallbackFired |-> FALSE,
     timer |-> FALSE, stopTimer |-> NoTimer, startTimer |-> NoTimer,
     audio |-> "none", now |-> 0, log |-> <<>>]

\* load: timings.push(-this.endPadding)
withEndPadding(s, timings) ==
    IF s.endPadding > 0 THEN Append(timings, -s.endPadding) ELSE timings

\* load: the loop that fills _cTimings, from [0]
RECURSIVE cumulative(_, _)
cumulative(timings, c) ==
    IF timings = <<>> THEN c
    ELSE cumulative(Tail(timings), Append(c, c[Len(c)] + Abs(Head(timings))))

\* load: the arrays made of the timings t
loaded(s, t) ==
    [s EXCEPT !.cTimings = cumulative(t, <<0>>),
              !.isNote = [i \in 1..Len(t) |-> t[i] > 0],
              !.sequenceLength = Len(t)]

\* MorsePlayerWAA.load(timings)
load(s, timings) == loaded(s, withEndPadding(s, timings))

\* MorsePlayerWAA.loadNext(timings)
loadNext(s, timings) == [s EXCEPT !.upNext = timings]

\* this._cTimings[i] is defined, and its value
hasTiming(s, i) == i >= 0 /\ i < Len(s.cTimings)
cTiming(s, i) == s.cTimings[i + 1]

\* this.isNote[i] is true (and not false or undefined)
noteAt(s, i) == i >= 0 /\ i < Len(s.isNote) /\ s.isNote[i + 1]

\* "if (this.upNext !== undefined) { this.load(this.upNext); this.upNext = undefined; }"
takeNext(s) ==
    IF s.upNext # "undefined" THEN [load(s, s.upNext) EXCEPT !.upNext = "undefined"]
    ELSE s

\* a stop that leaves _isPaused as it is
stopPlayingOnly(s) ==
    IF s.isPlaying
    THEN [s EXCEPT !.isPlaying = FALSE,
                   !.timer = FALSE, !.stopTimer = NoTimer, !.startTimer = NoTimer,
                   !.audio = "closed",
                   !.log = @ \o <<[fn |-> "close"], [fn |-> "soundStoppedCallback"]>>]
    ELSE s

\* MorsePlayerWAA.stop()
stop(s) ==
    IF s.isPlaying
    THEN [s EXCEPT !.isPlaying = FALSE, !.isPaused = FALSE,
                   !.timer = FALSE, !.stopTimer = NoTimer, !.startTimer = NoTimer,
                   !.audio = "closed",
                   !.log = @ \o <<[fn |-> "close"], [fn |-> "soundStoppedCallback"]>>]
    ELSE s

\* _scheduleNotes: the condition of the while loop; a comparison with NaN is false
dueSoon(s) ==
    /\ s.nextNote < s.sequenceLength
    /\ hasTiming(s, s.nextNote)
    /\ ~s.tZero.nan
    /\ cTiming(s, s.nextNote) < s.now - s.tZero.ms + lookAheadTime

\* _scheduleNotes: the callback scheduled with the first note
startScheduled(s) ==
    IF s.nextNote = 0 /\ ~s.sequenceStartCallbackFired
    THEN [s EXCEPT !.startTimer =
                       timeout(s.now, time(s.tZero.ms + cTiming(s, s.nextNote) - s.now)),
                   !.sequenceStartCallbackFired = TRUE,
                   !.log = Append(@, [fn |-> "setTimeout",
                                      at |-> s.tZero.ms + cTiming(s, s.nextNote)])]
    ELSE s

\* _scheduleNotes: the oscillator of a note
noteScheduled(s) ==
    IF noteAt(s, s.nextNote)
    THEN [s EXCEPT !.soundEndTime = time(s.tZero.ms + cTiming(s, s.nextNote + 1)),
                   !.log = Append(@, [fn |-> "note", index |-> s.nextNote,
                                      start |-> s.tZero.ms + cTiming(s, s.nextNote),
                                      end |-> s.tZero.ms + cTiming(s, s.nextNote + 1)])]
    ELSE s

\* _scheduleNotes: the end of the sequence inside the while loop
sequenceRestarted(s) ==
    IF s.nextNote = s.sequenceLength /\ (s.loop \/ s.upNext # "undefined")
    THEN takeNext([s EXCEPT !.tZero = plusTime(@, cTiming(s, s.nextNote)),
                            !.nextNote = 0])
    ELSE s

\* _scheduleNotes: one pass of the while loop
scheduledOne(s) ==
    sequenceRestarted(
        [noteScheduled(startScheduled([s EXCEPT !.notPlayedANote = FALSE]))
            EXCEPT !.nextNote = @ + 1])

\* _scheduleNotes: the while loop
RECURSIVE scheduledAll(_)
scheduledAll(s) == IF dueSoon(s) THEN scheduledAll(scheduledOne(s)) ELSE s

\* _scheduleNotes: "the last note is scheduled next time"
endingSoon(s) ==
    /\ hasTiming(s, s.sequenceLength - 1)
    /\ ~s.tZero.nan
    /\ s.now - s.tZero.ms + timerInterval + lookAheadTime
           > cTiming(s, s.sequenceLength - 1)
    /\ s.sequenceStartCallbackFired

\* _scheduleNotes from the end of the while loop: the state left, and what it returns
scheduleEnd(s) ==
    IF s.nextNote = s.sequenceLength
    THEN [s |-> [s EXCEPT !.timer = FALSE,
                          !.stopTimer =
                              timeout(s.now, plusTime(s.soundEndTime,
                                                      3 * lookAheadTime - s.now))],
          more |-> FALSE]
    ELSE IF endingSoon(s)
    THEN [s |-> [s EXCEPT !.log = Append(@, [fn |-> "sequenceEndingCallback"]),
                          !.sequenceStartCallbackFired = FALSE],
          more |-> TRUE]
    ELSE [s |-> s, more |-> TRUE]

\* MorsePlayerWAA._scheduleNotes()
scheduleNotes(s) == scheduleEnd(scheduledAll(s))

\* play(): the time base
timeBase(s) ==
    IF hasTiming(s, s.nextNote)
    THEN time(s.now - cTiming(s, s.nextNote)
              + (IF s.notPlayedANote THEN s.startPadding ELSE 0))
    ELSE NaNTime

\* play() from "if (this._scheduleNotes())": the interval timer
timerSet(r) == [r.s EXCEPT !.timer = r.more]

\* play() from the three clearInterval calls
resumed(s) ==
    timerSet(scheduleNotes([s EXCEPT !.stopTimer = NoTimer, !.startTimer = NoTimer,
                                     !.timer = FALSE, !.isPaused = FALSE,
                                     !.tZero = timeBase(s)]))

\* play() from "if (!this._isPaused)"
playing(s) == IF ~s.isPaused THEN s ELSE resumed(s)

\* _initialiseAudioNodes(): a new context, whose clock starts at 0
initialiseAudioNodes(s) == [s EXCEPT !.audio = "open", !.now = 0, !.notPlayedANote = TRUE]

\* MorsePlayerWAA.playFromStart(); the play() it ends with finds _isPlaying true
playFromStart(s) ==
    IF s.noAudio \/ Len(s.cTimings) = 0 THEN s
    ELSE playing([initialiseAudioNodes(stop(s))
                     EXCEPT !.nextNote = 0, !.isPlaying = TRUE, !.isPaused = TRUE])

\* MorsePlayerWAA.play()
play(s) == playing(IF ~s.isPlaying THEN playFromStart(s) ELSE s)

\* pause(): the end of the sequence
pausedAtEnd(s) ==
    IF s.nextNote = s.sequenceLength /\ (s.loop \/ s.upNext # "undefined")
    THEN takeNext([s EXCEPT !.nextNote = 0])
    ELSE s

\* pause(): the next element to schedule is made a note
pausedOnNote(s) ==
    IF ~noteAt(s, s.nextNote) THEN pausedAtEnd([s EXCEPT !.nextNote = @ + 1]) ELSE s

\* MorsePlayerWAA.pause()
pause(s) ==
    IF ~s.isPlaying THEN s
    ELSE pausedOnNote([s EXCEPT !.isPaused = TRUE, !.timer = FALSE])

\* the function given to setInterval in play()
timerFired(s) == scheduleNotes(s).s

\* the function given to setTimeout in _scheduleNotes, at the end of the sequence
stopTimerFired(s) == stop([s EXCEPT !.stopTimer = NoTimer])

\* the function given to setTimeout in _scheduleNotes, with the first note
startTimerFired(s) ==
    [s EXCEPT !.startTimer = NoTimer, !.log = Append(@, [fn |-> "sequenceStartCallback"])]

\* the sequences a caller loads
PlayerTimings == {<<100, -100, 100>>, <<50>>}
\* the paddings a caller sets: <<startPadding, endPadding>>
Paddings == {<<0, 0>>, <<150, 50>>}

\* the object's fields at the start of an operation, with the operation's empty log
beginPlayer == [f \in DOMAIN player \cup {"log"} |-> IF f = "log" THEN <<>> ELSE player[f]]

InitPlayer ==
    /\ \E l \in BOOLEAN, p \in Paddings :
           player = fields([newMorsePlayerWAA EXCEPT !.loop = l, !.startPadding = p[1],
                                                     !.endPadding = p[2]])
    /\ decoder = NoObject
    /\ cw = NoObject
    /\ keyer = NoObject
    /\ listener = NoObject
    /\ calls = <<>>
    /\ op = NoOp
    /\ recent = <<>>
    /\ nops = 0
    /\ script = <<>>
    /\ pos = 0

\* the caller called `name` with `arg`, which left the player, with its log, as r;
\* the last two calls are kept with what the player was doing when they were made
CalledPlayer(name, arg, r) ==
    /\ nops < MaxPlayerOps
    /\ player' = fields(r)
    /\ calls' = r.log
    /\ op' = [name |-> name, arg |-> arg]
    /\ nops' = nops + 1
    /\ recent' = sliceLast(Append(recent, [name |-> name,
                                           wasPlaying |-> player.isPlaying,
                                           wasPaused |-> player.isPaused]), 2)
    /\ UNCHANGED <<decoder, cw, keyer, listener, script, pos>>

\* the browser ran `name`, which left the player, with its log, as r
Happened(name, r) ==
    /\ player' = fields(r)
    /\ calls' = r.log
    /\ op' = [name |-> name, arg |-> "undefined"]
    /\ UNCHANGED <<decoder, cw, keyer, listener, recent, nops, script, pos>>

Load(t) == CalledPlayer("load", t, load(beginPlayer, t))

LoadNext(t) == CalledPlayer("loadNext", t, loadNext(beginPlayer, t))

PlayFromStart == CalledPlayer("playFromStart", "undefined", playFromStart(beginPlayer))

Play == CalledPlayer("play", "undefined", play(beginPlayer))

Pause == CalledPlayer("pause", "undefined", pause(beginPlayer))

Stop == CalledPlayer("stop", "undefined", stop(beginPlayer))

\* the clock of the open context moves on
ClockTick ==
    /\ player.audio = "open"
    /\ player.now < MaxTicks * TickMs
    /\ Happened("clock", [beginPlayer EXCEPT !.now = @ + TickMs])

\* the interval timer set by play() fires
TimerFires == player.timer /\ Happened("timer", timerFired(beginPlayer))

\* the timeout set at the end of the sequence fires
StopTimerFires ==
    /\ player.stopTimer.set
    /\ player.now >= player.stopTimer.due
    /\ Happened("stopTimer", stopTimerFired(beginPlayer))

\* the timeout set with the first note fires
StartTimerFires ==
    /\ player.startTimer.set
    /\ player.now >= player.startTimer.due
    /\ Happened("startTimer", startTimerFired(beginPlayer))

NextPlayer ==
    \/ \E t \in PlayerTimings : Load(t)
    \/ \E t \in PlayerTimings : LoadNext(t)
    \/ PlayFromStart
    \/ Play
    \/ Pause
    \/ Stop
    \/ ClockTick
    \/ TimerFires
    \/ StopTimerFires
    \/ StartTimerFires

SpecPlayer == InitPlayer /\ [][NextPlayer]_vars

-----------------------------------------------------------------------------
(* Playback of one loaded sequence that does not loop and has no sequence queued *)
(* after it: the caller calls play() and pause(), the browser runs the timers    *)
(* on time (the clock does not pass a timer that is due) and keeps running them. *)
(* The clock is followed while a timer waits for it.                             *)

InitPlayback ==
    /\ \E t \in PlayerTimings, p \in Paddings :
           player = fields(load([newMorsePlayerWAA EXCEPT !.startPadding = p[1],
                                                          !.endPadding = p[2]], t))
    /\ decoder = NoObject
    /\ cw = NoObject
    /\ keyer = NoObject
    /\ listener = NoObject
    /\ calls = <<>>
    /\ op = NoOp
    /\ recent = <<>>
    /\ nops = 0
    /\ script = <<>>
    /\ pos = 0

\* a timer is due: the browser runs it before the clock moves on
timerDue ==
    \/ player.stopTimer.set /\ player.now >= player.stopTimer.due
    \/ player.startTimer.set /\ player.now >= player.startTimer.due
    \/ player.timer /\ dueSoon(player)

\* a timer waits for the clock
timerWaits ==
    \/ player.stopTimer.set /\ player.now < player.stopTimer.due
    \/ player.startTimer.set /\ player.now < player.startTimer.due
    \/ player.timer /\ player.nextNote < player.sequenceLength /\ ~player.tZero.nan

\* the clock of the open context moves on to the next timer
ClockPasses ==
    /\ player.audio = "open"
    /\ ~timerDue
    /\ timerWaits
    /\ Happened("clock", [beginPlayer EXCEPT !.now = @ + TickMs])

NextPlayback ==
    \/ Play
    \/ Pause
    \/ ClockPasses
    \/ TimerFires
    \/ StopTimerFires
    \/ StartTimerFires

\* the interval timer is set and a call of its function would do something:
\* ENABLED <<TimerFires>>_vars, computed from the function
timerActs ==
    /\ player.timer
    /\ \/ fields(timerFired(beginPlayer)) # player
       \/ timerFired(beginPlayer).log # calls
       \/ op.name # "timer"

\* the browser keeps the clock running and runs every timer that stays set; the
\* last conjunct is WF_vars(TimerFires) written out
SpecPlayback ==
    /\ InitPlayback
    /\ [][NextPlayback]_vars
    /\ WF_vars(ClockPasses)
    /\ WF_vars(StopTimerFires)
    /\ WF_vars(StartTimerFires)
    /\ ([]<>(~timerActs) \/ []<><<TimerFires>>_vars)

-----------------------------------------------------------------------------
(* MorseKeyer and MorseIambicKeyer: a keyer that asks keyCallback for the paddle *)
(* on a timer, plays a side tone and passes what it sent to its decoder.  An     *)
(* operation works on [k, d, p, log]: the keyer, its decoder, its player and the *)
(* log of what it did; `now` is (new Date()).getTime().                          *)

\* operations performed on one keyer
MaxKeyerOps == 5

\* !x of a value that is true, false or undefined
notOf(b) == IF b = "true" THEN "false" ELSE "true"

\* new MorseKeyer(keyCallback, wpm, fwpm, frequency, messageCallback): the fields
\* of the keyer; _state.spaceCounter and _state.lastTime are undefined (-1 and
\* an unset time), as are the fields that only MorseIambicKeyer has
newMorseKeyer(w, f, callback) ==
    [class |-> "MorseKeyer", wpm |-> w, fwpm |-> f, messageCallback |-> callback,
     ditLen |-> ditLength(w)[1], fditLen |-> fditLength(w, f)[1],
     playing |-> FALSE, spaceCounter |-> -1, lastTime |-> NoTimer, timer |-> NoTimer,
     ditGoesFirst |-> "undefined", iambicA |-> "undefined",
     lastDitOrDah |-> "undefined", lastInput |-> -1, now |-> 0]

\* new MorseIambicKeyer(keyCallback, wpm, fwpm, frequency, iambicA, messageCallback)
newMorseIambicKeyer(w, f, iambicA, callback) ==
    [newMorseKeyer(w, f, callback) EXCEPT !.class = "MorseIambicKeyer",
                                          !.ditGoesFirst = "true", !.iambicA = iambicA]

\* the decoder the constructor makes: new MorseDecoder(wpm, fwpm, messageCallback)
\* with noiseThreshold = 0
keyerDecoder(w, f) ==
    [construct("MorseDecoder", w, f, 30) EXCEPT !.noiseThreshold = 0, !.log = <<>>]

\* MorseKeyer._ditOrDah(input)
keyerDitOrDah(input) ==
    IF input % 2 = 1 THEN "true" ELSE IF input = 2 THEN "false" ELSE "undefined"

\* an iambic keyer that repeats the last element when the paddles are released
iambicDitOrDahRepeating(k, input) ==
    CASE input = 0 ->
             IF k.iambicA # "true" /\ k.lastInput = 3 THEN k.lastDitOrDah
             ELSE "undefined"
      [] input = 1 -> "true"
      [] input = 2 -> "false"
      [] input = 3 ->
             IF k.lastDitOrDah = "undefined" THEN k.ditGoesFirst
             ELSE notOf(k.lastDitOrDah)
      [] OTHER -> "undefined"

\* MorseIambicKeyer._ditOrDah(input): the value of ditOrDah
iambicDitOrDah(k, input) ==
    CASE input = 0 ->
             IF k.iambicA # "true" /\ k.lastInput = 3 THEN notOf(k.lastDitOrDah)
             ELSE "undefined"
      [] input = 1 -> "true"
      [] input = 2 -> "false"
      [] input = 3 ->
             IF k.lastDitOrDah = "undefined" THEN k.ditGoesFirst
             ELSE notOf(k.lastDitOrDah)
      [] OTHER -> "undefined"

\* this._ditOrDah(key): what it returns
ditOrDah(k, key) ==
    IF k.class = "MorseIambicKeyer" THEN iambicDitOrDah(k, key) ELSE keyerDitOrDah(key)

\* this._ditOrDah(key): what it leaves in the keyer
afterDitOrDah(k, key) ==
    IF k.class = "MorseIambicKeyer"
    THEN [k EXCEPT !.lastDitOrDah = iambicDitOrDah(k, key), !.lastInput = key]
    ELSE k

\* this.decoder.addTiming(duration); a messageCallback that is `false` throws a
\* TypeError when flush calls it, after flush has assigned the decoder's fields
decoderAddTiming(s, duration) ==
    LET d == addTiming([s.d EXCEPT !.log = <<>>], duration)
        thrown == s.k.messageCallback = "false" /\ logged(d.log, "messageCallback") # <<>>
    IN  [s EXCEPT !.d = [d EXCEPT !.log = <<>>],
                  !.log = @ \o <<[fn |-> "decoder.addTiming", duration |-> duration]>>
                            \o d.log
                            \o (IF thrown THEN <<[fn |-> "throw"]>> ELSE <<>>)]

\* _check: "add how long since we've last been here as silence"
silenceAdded(s) ==
    IF s.k.lastTime.set THEN decoderAddTiming(s, s.k.lastTime.due - s.k.now) ELSE s

\* MorseKeyer._playTone(duration)
playTone(s, duration) ==
    LET p == playFromStart(load([s.p EXCEPT !.log = <<>>], <<duration>>))
    IN  [s EXCEPT !.p = [p EXCEPT !.log = <<>>],
                  !.log = @ \o <<[fn |-> "playTone", duration |-> duration]>> \o p.log]

\* MorseKeyer.stop()
keyerStop(s) == [s EXCEPT !.k.playing = FALSE, !.k.timer = NoTimer]

\* _check: the end, "this._state.lastTime = now + beepLen" and the timeout, which
\* is set when beepLen + silenceLen is neither 0 nor NaN
checkAgain(s, beepLen, silenceLen) ==
    [s EXCEPT !.k.lastTime = [set |-> TRUE, due |-> s.k.now + beepLen],
              !.k.timer = IF silenceLen.nan \/ beepLen + silenceLen.ms = 0 THEN @
                          ELSE timeout(s.k.now, time(beepLen + silenceLen.ms))]

\* a keyer that waits one Farnsworth dit, not four, before its last check
silenceLenBrief(k) ==
    CASE k.spaceCounter = 0 -> time((k.fditLen - k.ditLen) + (2 * k.fditLen))
      [] k.spaceCounter = 1 -> time(k.fditLen)
      [] k.spaceCounter = 2 -> time(0)
      [] OTHER -> NaNTime

\* _check: no key is pressed; silenceLen by _state.spaceCounter
silenceLen(k) ==
    CASE k.spaceCounter = 0 -> time((k.fditLen - k.ditLen) + (2 * k.fditLen))
      [] k.spaceCounter = 1 -> time(4 * k.fditLen)
      [] k.spaceCounter = 2 -> time(0)
      [] OTHER -> NaNTime

idle(s) ==
    checkAgain([(IF s.k.spaceCounter = 2 THEN keyerStop(s) ELSE s)
                   EXCEPT !.k.playing = FALSE, !.k.spaceCounter = @ + 1],
               0, silenceLen(s.k))

\* _check: a dit (beepLen = ditLen) or a dah (3 * ditLen) is sent
sent(s, beepLen) ==
    checkAgain(decoderAddTiming(playTone([s EXCEPT !.k.spaceCounter = 0], beepLen),
                                beepLen),
               beepLen, time(s.k.ditLen))

\* _check: from "if (ditOrDah === undefined)"
checked(s, element) ==
    IF logged(s.log, "throw") # <<>> THEN s
    ELSE IF element = "undefined" THEN idle(s)
    ELSE sent(s, (IF element = "true" THEN 1 ELSE 3) * s.k.ditLen)

\* MorseKeyer._check(), keyCallback returning key
check(s, key) ==
    checked(silenceAdded(
                [s EXCEPT !.k = afterDitOrDah(s.k, key),
                          !.log = Append(@, [fn |-> "check", key |-> key,
                                             element |-> ditOrDah(s.k, key)])]),
            ditOrDah(s.k, key))

\* MorseKeyer.start(), keyCallback returning key
start(s, key) ==
    IF s.k.playing THEN s
    ELSE check([s EXCEPT !.k.playing = TRUE, !.k.spaceCounter = 0,
                         !.k.lastTime = NoTimer, !.k.timer = NoTimer], key)

\* what keyCallback returns
Keys == 0..3

\* the (wpm, fwpm) pairs a keyer is made with
KeyerSpeeds == {<<Num(20), Num(20)>>, <<Num(20), Num(10)>>}

\* the keyer, its decoder and its player at the start of an operation
beginKeyer == [k |-> keyer, d |-> begin, p |-> beginPlayer, log |-> <<>>]

InitKeyer ==
    /\ \/ \E sp \in KeyerSpeeds :
              /\ keyer = newMorseKeyer(sp[1], sp[2], "undefined")
              /\ decoder = fields(keyerDecoder(sp[1], sp[2]))
       \/ \E a \in {"true", "false"}, cb \in {"function", "false"} :
              /\ keyer = newMorseIambicKeyer(Num(20), Num(20), a, cb)
              /\ decoder = fields(keyerDecoder(Num(20), Num(20)))
    /\ player = fields(newMorsePlayerWAA)
    /\ cw = NoObject
    /\ listener = NoObject
    /\ calls = <<>>
    /\ op = NoOp
    /\ recent = <<>>
    /\ nops = 0
    /\ script = <<>>
    /\ pos = 0

\* the silence and the events the decoder was given in a log
silencePushed(log) == logged(log, "decoder.addTiming")

\* `name` ran with keyCallback returning key and left the keyer, its decoder and its
\* player as r; the last four operations are kept with what they did
CalledKeyer(name, key, r) ==
    /\ nops < MaxKeyerOps
    /\ keyer' = r.k
    /\ decoder' = fields(r.d)
    /\ player' = fields(r.p)
    /\ calls' = r.log
    /\ op' = [name |-> name, arg |-> key]
    /\ nops' = nops + 1
    /\ recent' = sliceLast(Append(recent, [name |-> name, key |-> key,
                                           wasPlaying |-> keyer.playing,
                                           log |-> r.log]), 4)
    /\ UNCHANGED <<cw, listener, script, pos>>

\* the caller calls start() when it detects a key press; keyCallback is asked only
\* when the keyer is not playing
Start(key) ==
    /\ keyer.playing => key = 0
    /\ CalledKeyer("start", IF keyer.playing THEN "undefined" ELSE key,
                   start(beginKeyer, key))

\* the caller calls stop()
StopKeyer == CalledKeyer("stop", "undefined", keyerStop(beginKeyer))

\* the timeout set by _check fires, on time
CheckTimerFires(key) ==
    /\ keyer.timer.set
    /\ CalledKeyer("check", key,
                   check([beginKeyer EXCEPT !.k.now = keyer.timer.due,
                                            !.k.timer = NoTimer], key))

NextKeyer ==
    \/ \E key \in Keys : Start(key)
    \/ StopKeyer
    \/ \E key \in Keys : CheckTimerFires(key)

SpecKeyer == InitKeyer /\ [][NextKeyer]_vars

-----------------------------------------------------------------------------
(* MorseListener: the properties of the volume filter, the frequency filter and *)
(* the volume threshold.  The volume filter is kept in the AnalyserNode the     *)
(* listener creates, whose minDecibels and maxDecibels start at -100 and -30;   *)
(* a browser that follows the Web Audio API throws an IndexSizeError when       *)
(* minDecibels is set to maxDecibels or more, or maxDecibels to minDecibels or  *)
(* less, and `strict` says whether the browser does.  An argument that isNaN()  *)
(* rejects (undefined, NaN, text) is NaN.                                       *)

\* assignments made to one listener
MaxListenerOps == 3

\* Math.min and Math.max of two numbers
mathMin(a, b) == IF isNaN(a) \/ isNaN(b) THEN NaN ELSE IF Lt(b, a) THEN b ELSE a
mathMax(a, b) == IF isNaN(a) \/ isNaN(b) THEN NaN ELSE IF Lt(a, b) THEN b ELSE a

\* the number a field that may be undefined is read as
toNumber(x) == IF x = "undefined" THEN NaN ELSE x

\* a * b, which is NaN when either is
product(a, b) == IF isNaN(a) \/ isNaN(b) THEN NaN ELSE Mul(a, b)

\* the setter threw: nothing after the throw happened
thrown(s) == [s EXCEPT !.log = Append(@, [fn |-> "throw"])]

volumeFilterCallback(s) ==
    [s EXCEPT !.log = Append(@, [fn |-> "volumeFilterCallback",
                                 min |-> s.minDecibels, max |-> s.maxDecibels])]

\* set volumeFilterMin: from "this.analyserNode.minDecibels = v"
volumeFilterMinSet(s, v) ==
    IF s.strict /\ ~Lt(v, s.maxDecibels) THEN thrown(s)
    ELSE volumeFilterCallback([s EXCEPT !.minDecibels = v,
                                        !.maxDecibels = mathMax(@, v)])

\* set volumeFilterMin(v)
setVolumeFilterMin(s, v) ==
    volumeFilterMinSet(s, mathMin(Num(0), IF isNaN(v) THEN Num(-60) ELSE v))

\* a volumeFilterMax setter that leaves minDecibels alone
volumeFilterMaxOnly(s, v) ==
    IF s.strict /\ ~Lt(s.minDecibels, v) THEN thrown(s)
    ELSE volumeFilterCallback([s EXCEPT !.maxDecibels = v])

\* set volumeFilterMax: from "this.analyserNode.maxDecibels = v"
volumeFilterMaxSet(s, v) ==
    IF s.strict /\ ~Lt(s.minDecibels, v) THEN thrown(s)
    ELSE volumeFilterCallback([s EXCEPT !.maxDecibels = v,
                                        !.minDecibels = mathMin(@, v)])

\* set volumeFilterMax(v)
setVolumeFilterMax(s, v) ==
    volumeFilterMaxSet(s, mathMin(Num(0), IF isNaN(v) THEN Num(-30) ELSE v))

\* get frequencyFilterMin and get frequencyFilterMax
frequencyFilterMin(s) ==
    mathMax(product(toNumber(s.filterBinLow), s.freqStep), Num(0))
frequencyFilterMax(s) ==
    mathMin(product(toNumber(s.filterBinHigh), s.freqStep), s.maxFreq)

frequencyFilterCallback(s) ==
    [s EXCEPT !.log = Append(@, [fn |-> "frequencyFilterCallback",
                                 min |-> frequencyFilterMin(s),
                                 max |-> frequencyFilterMax(s)])]

\* the bin of a frequency:
\* Math.min(Math.max(Math.round(f / this.freqStep), 1), this.freqBins), after
\* f = Math.min(Math.max(f, 0), this.maxFreq)
filterBin(s, f) ==
    mathMin(mathMax(Round(Div(mathMin(mathMax(f, Num(0)), s.maxFreq), s.freqStep)),
                    Num(1)),
            s.freqBins)

\* set frequencyFilterMin(f)
setFrequencyFilterMin(s, f) ==
    frequencyFilterCallback(
        [s EXCEPT !.filterBinLow = filterBin(s, IF isNaN(f) THEN Num(550) ELSE f),
                  !.filterBinHigh =
                      mathMax(filterBin(s, IF isNaN(f) THEN Num(550) ELSE f),
                              toNumber(@))])

\* set frequencyFilterMax(f)
setFrequencyFilterMax(s, f) ==
    frequencyFilterCallback(
        [s EXCEPT !.filterBinHigh = filterBin(s, IF isNaN(f) THEN Num(550) ELSE f),
                  !.filterBinLow =
                      mathMin(filterBin(s, IF isNaN(f) THEN Num(550) ELSE f),
                              toNumber(@))])

\* set frequencyFilter(f)
setFrequencyFilter(s, f) == setFrequencyFilterMax(setFrequencyFilterMin(s, f), f)

\* set volumeThreshold(v)
setVolumeThreshold(s, v) ==
    LET t == mathMin(mathMax(Round(IF isNaN(v) THEN Num(200) ELSE v), Num(0)), Num(255))
    IN  [s EXCEPT !.volumeThreshold = t,
                  !.log = Append(@, [fn |-> "volumeThresholdCallback", value |-> t])]

\* a setter applied unless an earlier one threw
unlessThrown(s, r) == IF logged(s.log, "throw") # <<>> THEN s ELSE r

\* new MorseListener(fftSize, volumeFilterMin, volumeFilterMax, frequencyFilterMin,
\* frequencyFilterMax, volumeThreshold, ...) in a browser whose audio context runs
\* at sampleRate
newMorseListener(strict, sampleRate, fftSize, a) ==
    LET s0 == [strict |-> strict,
               maxFreq |-> Rat(sampleRate, 2), freqBins |-> Rat(fftSize, 2),
               freqStep |-> Div(Rat(sampleRate, 2), Rat(fftSize, 2)),
               minDecibels |-> Num(-100), maxDecibels |-> Num(-30),
               filterBinLow |-> "undefined", filterBinHigh |-> "undefined",
               volumeThreshold |-> "undefined", log |-> <<>>]
        s1 == setVolumeFilterMin(s0, a[1])
        s2 == unlessThrown(s1, setVolumeFilterMax(s1, a[2]))
        s3 == unlessThrown(s2, setFrequencyFilterMin(s2, a[3]))
        s4 == unlessThrown(s3, setFrequencyFilterMax(s3, a[4]))
    IN  unlessThrown(s4, setVolumeThreshold(s4, a[5]))

\* the volumes (dB), frequencies (Hz) and thresholds a caller passes
Volumes == {NaN, Num(-100), Num(-30), Num(0), Num(5)}
Frequencies == {NaN, Num(-100), Num(90), Num(600), Num(30000)}
Thresholds == {NaN, Num(-5), Rat(399, 2), Num(300)}

\* the arguments of the constructor: the defaults, the page's example, and
\* arguments that are out of order and out of range
ListenerArgs ==
    {<<NaN, NaN, NaN, NaN, NaN>>,
     <<Num(-60), Num(-30), Num(300), Num(1500), Num(200)>>,
     <<Num(-10), Num(-50), Num(30000), Num(-100), Num(300)>>}

\* the audio contexts and FFT sizes a listener is made with
SampleRates == {44100, 48000}
FftSizes == {256, 1024}

beginListener ==
    [f \in DOMAIN listener \cup {"log"} |-> IF f = "log" THEN <<>> ELSE listener[f]]

InitListener ==
    /\ \E strict \in BOOLEAN, rate \in SampleRates, size \in FftSizes, a \in ListenerArgs :
           /\ logged(newMorseListener(strict, rate, size, a).log, "throw") = <<>>
           /\ listener = fields(newMorseListener(strict, rate, size, a))
    /\ decoder = NoObject
    /\ cw = NoObject
    /\ player = NoObject
    /\ keyer = NoObject
    /\ calls = <<>>
    /\ op = NoOp
    /\ recent = <<>>
    /\ nops = 0
    /\ script = <<>>
    /\ pos = 0

\* the property `name` was assigned v, which left the listener, with its log, as r
AssignedListener(name, v, r) ==
    /\ nops < MaxListenerOps
    /\ listener' = fields(r)
    /\ calls' = r.log
    /\ op' = [name |-> name, arg |-> v]
    /\ nops' = nops + 1
    /\ UNCHANGED <<decoder, cw, player, keyer, recent, script, pos>>

SetVolumeFilterMin(v) ==
    AssignedListener("volumeFilterMin", v, setVolumeFilterMin(beginListener, v))

SetVolumeFilterMax(v) ==
    AssignedListener("volumeFilterMax", v, setVolumeFilterMax(beginListener, v))

SetFrequencyFilterMin(f) ==
    AssignedListener("frequencyFilterMin", f, setFrequencyFilterMin(beginListener, f))

SetFrequencyFilterMax(f) ==
    AssignedListener("frequencyFilterMax", f, setFrequencyFilterMax(beginListener, f))

SetFrequencyFilter(f) ==
    AssignedListener("frequencyFilter", f, setFrequencyFilter(beginListener, f))

SetVolumeThreshold(v) ==
    AssignedListener("volumeThreshold", v, setVolumeThreshold(beginListener, v))

NextListener ==
    \/ \E v \in Volumes : SetVolumeFilterMin(v)
    \/ \E v \in Volumes : SetVolumeFilterMax(v)
    \/ \E f \in Frequencies : SetFrequencyFilterMin(f)
    \/ \E f \in Frequencies : SetFrequencyFilterMax(f)
    \/ \E f \in Frequencies : SetFrequencyFilter(f)
    \/ \E v \in Thresholds : SetVolumeThreshold(v)

SpecListener == InitListener /\ [][NextListener]_vars

-----------------------------------------------------------------------------
(* What the last operation did *)

flushes == logged(calls, "flush")
messageEvents == logged(calls, "messageCallback")
pushes == logged(calls, "push")

front(s) == SubSeq(s, 1, Len(s) - 1)
lastOf(s) == s[Len(s)]
absAll(s) == [i \in 1..Len(s) |-> Abs(s[i])]
tailFrom(s, n) == SubSeq(s, n + 1, Len(s))

\* the buffer a flush call works on once it has discarded a leading silence
\* because the message ended with a word space
afterDiscard(f) ==
    IF f.message # <<>> /\ lastOf(f.message) = " "
       /\ f.unusedTimes # <<>> /\ f.unusedTimes[1] < 0
    THEN Tail(f.unusedTimes) ELSE f.unusedTimes

-----------------------------------------------------------------------------
(* C1 *)

\* a value the speed setters take as it is: a number, at least 1
isSpeed(v) == ~isNaN(v) /\ Le(Num(1), v)

C1_FwpmAtMostWpm == Le(decoder.fwpm, decoder.wpm)

C1_SettersMatch ==
    /\ (op'.name = "fwpm" /\ isSpeed(op'.arg) /\ Lt(decoder.wpm, op'.arg))
           => decoder'.wpm = op'.arg
    /\ (op'.name = "wpm" /\ isSpeed(op'.arg) /\ Lt(op'.arg, decoder.fwpm))
           => decoder'.fwpm = op'.arg

\* C1: after construction and after any sequence of assignments to wpm, fwpm,
\* ditLen, fditLen and any adaptive recalibration, fwpm <= wpm; assigning fwpm a
\* value above the current wpm raises wpm to that value, and assigning wpm a value
\* below the current fwpm lowers fwpm to that value (read of the values the setters
\* do not replace, numbers >= 1: this is implied by the claim as stated).
C1_SpeedInvariant == [](C1_FwpmAtMostWpm) /\ [][C1_SettersMatch]_vars

-----------------------------------------------------------------------------
(* C2 *)

\* the label the five cases of the claim give duration d at the current thresholds
C2_Label(d, c) ==
    LET mag == Num(Abs(d))
        dd == decoder.ditDahThreshold
        ds == decoder.dahSpaceThreshold
    IN  /\ (d > 0 /\ Lt(mag, dd)) => c = "."
        /\ (d > 0 /\ Le(dd, mag)) => c = "-"
        /\ (d < 0 /\ Lt(mag, dd)) => c = ""
        /\ (d < 0 /\ Le(dd, mag) /\ Lt(mag, ds)) => c = " "
        /\ (d < 0 /\ Le(ds, mag)) => c = "/"

\* C2: every duration a flush classifies is recorded with the label of the five
\* cases: tone below ditDahThreshold ".", tone at or above it "-", silence below
\* ditDahThreshold the empty dit-space label, silence from ditDahThreshold up to
\* but not including dahSpaceThreshold " ", silence at or above dahSpaceThreshold
\* "/"; a duration equal to a threshold takes the longer class.
C2_Classification ==
    \A k \in 1..Len(messageEvents) :
        LET u == messageEvents[k].timings
            base == flushes[k].recorded
        IN  /\ Len(decoder.timings) = base + Len(u)
            /\ \A i \in 1..Len(u) :
                   /\ decoder.timings[base + i] = Abs(u[i])
                   /\ C2_Label(u[i], decoder.characters[base + i])

\* a flush classified a tone and a silence that both equal a threshold
C2_Witness ==
    /\ messageEvents # <<>>
    /\ \E i, j \in 1..Len(decoder.timings) :
           /\ Num(decoder.timings[i]) = decoder.ditDahThreshold
           /\ decoder.characters[i] = "-"
           /\ Num(decoder.timings[j]) = decoder.dahSpaceThreshold
           /\ decoder.characters[j] = "/"

-----------------------------------------------------------------------------
(* C3 *)

\* C3: consecutive entries of the unused-time buffer have opposite signs.
C3_BufferAlternates ==
    \A i \in 1..(Len(decoder.unusedTimes) - 1) :
        decoder.unusedTimes[i] * decoder.unusedTimes[i + 1] < 0

\* two addTiming calls of the same sign in a row, with three entries buffered
C3_Witness ==
    /\ Len(decoder.unusedTimes) >= 3
    /\ Len(recent) >= 2
    /\ recent[Len(recent)].arg * recent[Len(recent) - 1].arg > 0

-----------------------------------------------------------------------------
(* C4 *)

isGlitch(d) == d # 0 /\ Abs(d) <= decoder.noiseThreshold

\* three addTiming calls in a row: a, then a glitch g of the other polarity, then b
\* of the polarity of a
C4_GlitchBetween ==
    /\ Len(recent) = 3
    /\ ~isGlitch(recent[1].arg) /\ isGlitch(recent[2].arg) /\ ~isGlitch(recent[3].arg)
    /\ recent[1].arg * recent[3].arg > 0
    /\ recent[1].arg * recent[2].arg < 0

\* C4: a glitch g passed to addTiming between two durations a and b of the same
\* polarity is never an element of its own: it does not enter the buffer as an
\* entry of its own (so that no flush can record a ".", "-" or space for it), and b
\* joins the entry that holds a and g (when the glitch itself did not end a character).
C4_NoiseRejection ==
    C4_GlitchBetween =>
        /\ recent[2].pushed # recent[2].arg
        /\ ~recent[2].flushed => recent[3].pushed = recent[2].pushed + recent[3].arg

-----------------------------------------------------------------------------
(* C5 *)

\* C5: addTiming calls flush exactly when the entry it has just pushed is silence
\* of magnitude >= ditDahThreshold, and then once; a tone or a shorter silence
\* never triggers a flush.
C5_FlushTrigger ==
    (op.name = "addTiming" /\ op.arg # 0) =>
        LET p == pushedBy(calls)
        IN  IF p < 0 /\ Le(decoder.ditDahThreshold, Num(Abs(p)))
            THEN Len(flushes) = 1
            ELSE Len(flushes) = 0

\* addTiming pushed a silence of exactly ditDahThreshold after merging, and flushed
C5_Witness ==
    /\ op.name = "addTiming"
    /\ pushes # <<>>
    /\ pushedBy(calls) # op.arg
    /\ Num(-pushedBy(calls)) = decoder.ditDahThreshold
    /\ Len(flushes) = 1

-----------------------------------------------------------------------------
(* C6 *)

heldBack(buffer) ==
    /\ buffer # <<>>
    /\ lastOf(buffer) < 0
    /\ Lt(Num(-lastOf(buffer)), decoder.dahSpaceThreshold)

\* what the claim says of a flush call f that found `buffer`: the trailing silence is
\* kept as the whole buffer and not recorded, the entries before it are classified
C6_Held(f, k, buffer) ==
    /\ decoder.unusedTimes = <<lastOf(buffer)>>
    /\ Len(messageEvents) >= k
    /\ messageEvents[k].timings = front(buffer)
    /\ tailFrom(decoder.timings, f.recorded) = absAll(front(buffer))

\* C6 as stated: whenever flush runs and the last buffered entry is silence shorter
\* than dahSpaceThreshold, that entry is not classified, all entries before it are,
\* and the buffer ends as the one-element sequence holding that silence.
C6_HoldBackOriginal ==
    \A k \in 1..Len(flushes) :
        heldBack(flushes[k].unusedTimes) =>
            C6_Held(flushes[k], k, flushes[k].unusedTimes)

\* C6 amended: the same of the buffer that is left once flush has discarded a
\* leading silence after a word space (the discard can take the trailing silence
\* itself, and the entry it takes is not classified).
C6_HoldBack ==
    \A k \in 1..Len(flushes) :
        heldBack(afterDiscard(flushes[k])) =>
            C6_Held(flushes[k], k, afterDiscard(flushes[k]))

\* a flush held back a short trailing silence and classified two entries before it
C6_Witness ==
    /\ Len(flushes) = 1
    /\ heldBack(afterDiscard(flushes[1]))
    /\ Len(afterDiscard(flushes[1])) >= 3

-----------------------------------------------------------------------------
(* C7 *)

noneAdjacent(s, c) == \A i \in 1..(Len(s) - 1) : ~(s[i] = c /\ s[i + 1] = c)

discardsLeading(f) == afterDiscard(f) # f.unusedTimes

\* C7: a flush that finds the message ending with a word space and a silence first
\* in the buffer removes that silence without classifying or recording it (what it
\* classifies and records starts after it); the accumulated morse never holds two
\* adjacent "/" and the message never holds two adjacent spaces.
C7_NoDoubleWordSpace ==
    /\ \A k \in 1..Len(flushes) :
           discardsLeading(flushes[k]) =>
               LET rest == Tail(flushes[k].unusedTimes)
                   u == IF heldBack(rest) THEN front(rest) ELSE rest
               IN  /\ tailFrom(decoder.timings, flushes[k].recorded) = absAll(u)
                   /\ rest # <<>> => (Len(messageEvents) >= k
                                       /\ messageEvents[k].timings = u)
                   /\ rest = <<>> => (messageEvents = <<>> /\ decoder.unusedTimes = <<>>)
    /\ noneAdjacent(decoder.morse, "/")
    /\ noneAdjacent(decoder.message, " ")

\* a flush discarded a leading silence after a word space and classified what followed
C7_Witness ==
    /\ Len(flushes) = 1
    /\ discardsLeading(flushes[1])
    /\ messageEvents # <<>>
    /\ messageEvents[1].timings # <<>>

-----------------------------------------------------------------------------
(* C8 *)

\* C8: a flush() that directly follows a flush() is a no-op: it calls
\* messageCallback zero times and leaves morse, message, the record and the buffer
\* as they were.
C8_FlushIdempotent ==
    [][(op.name = "flush" /\ op'.name = "flush" /\ nops' = nops + 1) =>
           (logged(calls', "messageCallback") = <<>> /\ decoder' = decoder)]_vars

-----------------------------------------------------------------------------
(* C9 *)

\* C9: every flush that classified at least one duration calls messageCallback
\* exactly once, and a flush that produced no output (empty morse fragment and
\* empty text fragment) does not call it.
C9_OneEventPerOutput ==
    /\ Len(flushes) <= 1
    /\ Len(flushes) = 1 =>
           IF Len(decoder.timings) > flushes[1].recorded
           THEN Len(messageEvents) = 1
           ELSE Len(messageEvents) = 0
    /\ Len(flushes) = 0 => Len(messageEvents) = 0

-----------------------------------------------------------------------------
(* C10 *)

C10_Timings == <<60, -60, 180, -180, 60, -420, 60>>

C10_Fed == pos = Len(script) /\ op.name = "flush" /\ script = C10_Timings

\* C10 as stated: at 20/20 wpm the timings 60, -60, 180, -180, 60, -420, 60 and
\* then flush() leave the accumulated morse equal to ".- . / ."
C10_RoundTripOriginal ==
    C10_Fed => decoder.morse = <<".", "-", " ", ".", " ", "/", " ", ".">>

\* C10 amended: they leave the accumulated morse equal to ".- ./." (the labels
\* concatenated, the word space without spaces around it), which tidyMorse
\* brings to ".- . / ."
C10_RoundTrip ==
    C10_Fed =>
        /\ decoder.morse = <<".", "-", " ", ".", "/", ".">>
        /\ tidyMorse(decoder.morse) = <<".", "-", " ", ".", " ", "/", " ", ".">>

\* the seven timings were fed and flush() was called
C10_Witness == C10_Fed /\ Len(decoder.timings) = 7

-----------------------------------------------------------------------------
(* C11 *)

\* the message fragments of a sequence of events, concatenated
RECURSIVE fragments(_)
fragments(events) ==
    IF events = <<>> THEN <<>> ELSE Head(events).message \o fragments(Tail(events))

C11_Message == C10_Fed => decoder.message = <<"A", "E", " ", "E">>

C11_Accumulates ==
    decoder'.message = decoder.message \o fragments(logged(calls', "messageCallback"))

\* C11: a MorseDecoder at 20 wpm that receives addTiming for 60, -60, 180, -180,
\* 60, -420, 60 and then flush() has the accumulated message "AE E", the message
\* being at every step the concatenation of the message fragments of the events
\* emitted so far.
C11_Scenario == [](C11_Message) /\ [][C11_Accumulates]_vars

\* the scenario was played and its last flush emitted the fragment "E"
C11_Witness ==
    /\ C10_Fed
    /\ Len(messageEvents) = 1
    /\ messageEvents[1].message = <<"E">>
    /\ messageEvents[1].timings = <<60>>

-----------------------------------------------------------------------------
(* C12 *)

\* C12: addTiming(0) leaves the whole decoder state unchanged (buffer, morse,
\* message, classification record, speed and thresholds) and triggers neither a
\* flush nor any callback.
C12_ZeroIgnored ==
    [][(op'.name = "addTiming" /\ op'.arg = 0 /\ nops' = nops + 1) =>
           (decoder' = decoder /\ calls' = <<>>)]_vars

\* addTiming(0) was called on a buffer that ends with a silence long enough to
\* end a character
C12_Witness ==
    /\ op.name = "addTiming" /\ op.arg = 0
    /\ decoder.unusedTimes # <<>>
    /\ endsCharacter(decoder, lastOf(decoder.unusedTimes))
    /\ decoder.message # <<>>

-----------------------------------------------------------------------------
(* C13 *)

C13_Assigned ==
    /\ (op.name = "wpm" /\ NaN = op.arg) => decoder.wpm = Num(defaultWpm)
    /\ (op.name = "fwpm" /\ NaN = op.arg) => decoder.fwpm = Num(defaultFwpm)

\* C13 as stated: assigning NaN to wpm results in wpm = 20 and assigning NaN to
\* fwpm results in fwpm = 20, and the same holds for NaN constructor arguments.
C13_DefaultsOriginal ==
    /\ C13_Assigned
    /\ (op.name = "new" /\ NaN = op.arg[1]) => decoder.wpm = Num(defaultWpm)
    /\ (op.name = "new" /\ NaN = op.arg[2]) => decoder.fwpm = Num(defaultFwpm)

\* C13 amended: assigning NaN to wpm results in wpm = 20 and assigning NaN to fwpm
\* results in fwpm = 20; a NaN fwpm argument of the constructor results in
\* fwpm = 20, and a NaN wpm argument results in wpm = 20 unless the fwpm argument
\* is a number above 20, which raises wpm to it.
C13_Defaults ==
    /\ C13_Assigned
    /\ (op.name = "new" /\ NaN = op.arg[1]) =>
           decoder.wpm = MaxNum(Num(defaultWpm), decoder.fwpm)
    /\ (op.name = "new" /\ NaN = op.arg[2]) => decoder.fwpm = Num(defaultFwpm)

\* a decoder constructed with a NaN wpm and an fwpm of 30
C13_Witness ==
    /\ op.name = "new" /\ NaN = op.arg[1] /\ Num(30) = op.arg[2]
    /\ decoder.wpm = Num(30) /\ decoder.fwpm = Num(30)

-----------------------------------------------------------------------------
(* C14 *)

\* C14 as stated: in every reachable state ditDahThreshold = 2 * ditLen and
\* dahSpaceThreshold = 5 * fditLen.
C14_ThresholdsOriginal ==
    /\ decoder.ditDahThreshold = Mul(Num(2), decoder.ditLen)
    /\ decoder.dahSpaceThreshold = Mul(Num(5), decoder.fditLen)

\* C14 amended: in every reachable state ditDahThreshold = 2 * ditLen and
\* dahSpaceThreshold is ((3 * fditLen) + (7 * fditLen)) / 2 as rounded for the
\* current fditLen: the double 5 * fditLen or one of its two neighbours, and
\* 5 * fditLen itself when fditLen is a whole number.
C14_Thresholds ==
    /\ decoder.ditDahThreshold = Mul(Num(2), decoder.ditLen)
    /\ Rat(decoder.dahSpaceThreshold[1], decoder.dahSpaceThreshold[2])
           = Mul(Num(5), decoder.fditLen)
    /\ decoder.dahSpaceThreshold[3] = dahSpaceUlps(decoder.fditLen)
    /\ decoder.dahSpaceThreshold[3] \in {-1, 0, 1}
    /\ decoder.fditLen[2] = 1 => decoder.dahSpaceThreshold[3] = 0

\* fditLen was assigned 64.1: the threshold is the double below 5 * 64.1
C14_Witness ==
    /\ op.name = "fditLen"
    /\ decoder.fditLen = Rat(641, 10)
    /\ decoder.dahSpaceThreshold = <<641, 2, -1>>
    /\ decoder.ditDahThreshold = Num(120)

-----------------------------------------------------------------------------
(* C15 *)

C15_FditAtLeastDit == Le(decoder.ditLen, decoder.fditLen)

C15_SettersClamp ==
    /\ (op'.name = "ditLen" /\ Lt(decoder.fditLen, op'.arg))
           => decoder'.fditLen = op'.arg
    /\ (op'.name = "fditLen" /\ Lt(op'.arg, decoder.ditLen))
           => decoder'.ditLen = op'.arg

\* C15: in every reachable decoder state fditLen >= ditLen: assigning ditLen above
\* the current fditLen raises fditLen to it, assigning fditLen below the current
\* ditLen lowers ditLen to it, and the wpm and fwpm setters, with their rounding,
\* preserve fditLen >= ditLen.
C15_UnitLengths == [](C15_FditAtLeastDit) /\ [][C15_SettersClamp]_vars

-----------------------------------------------------------------------------
(* C16 *)

\* the last operation was an addTiming or a flush
fedOrFlushed == op.name \in {"addTiming", "flush"}

decodes == logged(calls, "addDecode")

\* C16: while lockSpeed is true on a MorseAdaptiveDecoder, an addTiming or flush
\* call, whatever speed its durations suggest, leaves wpm, fwpm, ditLen, fditLen
\* and both thresholds unchanged and does not invoke speedCallback
C16_LockedSpeed ==
    [][(decoder.lockSpeed /\ nops' = nops + 1 /\ op'.name \in {"addTiming", "flush"})
       => /\ decoder'.wpm = decoder.wpm
          /\ decoder'.fwpm = decoder.fwpm
          /\ decoder'.ditLen = decoder.ditLen
          /\ decoder'.fditLen = decoder.fditLen
          /\ decoder'.ditDahThreshold = decoder.ditDahThreshold
          /\ decoder'.dahSpaceThreshold = decoder.dahSpaceThreshold
          /\ logged(calls', "speedCallback") = <<>>]_vars

\* a locked decoder at 20 wpm has just decoded a dit of 90 ms, which suggests a
\* slower speed
C16_Witness ==
    /\ decoder.lockSpeed
    /\ fedOrFlushed
    /\ decoder.ditLen = Num(60)
    /\ \E i \in 1..Len(decodes) :
           /\ decodes[i].character = "."
           /\ decodes[i].duration = 90
           /\ decodes[i].before.lockSpeed

-----------------------------------------------------------------------------
(* C17 *)

\* the elements classified so far
classified == Len(decoder.timings)

\* C17: an unlocked MorseAdaptiveDecoder created with wpm = 10 and fed a steady run
\* of 20 wpm durations reports a wpm within 1 of 20 once bufferSize (30) elements
\* have been classified, and from then on
C17_Convergence ==
    [](classified >= decoder.bufferSize
       => Le(Num(19), decoder.wpm) /\ Le(decoder.wpm, Num(21)))

-----------------------------------------------------------------------------
(* C18 *)

\* the dit-length samples, oldest first, of the elements classified so far
RECURSIVE ditSamples(_, _)
ditSamples(timings, characters) ==
    IF timings = <<>> THEN <<>>
    ELSE ditSamples(front(timings), front(characters))
         \o (CASE lastOf(characters) \in {".", ""} -> <<Num(lastOf(timings))>>
               [] lastOf(characters) = "-" -> <<Div(Num(lastOf(timings)), Num(3))>>
               [] OTHER -> <<>>)

\* the Farnsworth-dit samples, oldest first, of the elements classified so far
RECURSIVE fditSamples(_, _)
fditSamples(timings, characters) ==
    IF timings = <<>> THEN <<>>
    ELSE fditSamples(front(timings), front(characters))
         \o (IF lastOf(characters) = " "
             THEN <<Div(Num(lastOf(timings)), Num(3))>> ELSE <<>>)

\* the samples a window holds
RECURSIVE samplesIn(_)
samplesIn(window) ==
    IF window = <<>> THEN <<>>
    ELSE (IF Head(window) # "undefined" THEN <<Head(window)>> ELSE <<>>)
         \o samplesIn(Tail(window))

\* C18: the dit-length window holds the most recent min(n, bufferSize) of the n
\* dit-length samples taken so far (from '.', '-' and dit-space elements), and the
\* Farnsworth window the most recent min(m, bufferSize) of the m Farnsworth-dit
\* samples (from ' ' elements): a sample leaves only when its own window is full
C18_Windows ==
    /\ samplesIn(decoder.ditLengths)
           = sliceLast(ditSamples(decoder.timings, decoder.characters), decoder.bufferSize)
    /\ samplesIn(decoder.fditLengths)
           = sliceLast(fditSamples(decoder.timings, decoder.characters), decoder.bufferSize)

-----------------------------------------------------------------------------
(* C19 *)

\* the sum of the samples, the sample at position i (0 = oldest) times i + 1
RECURSIVE linearSum(_)
linearSum(samples) ==
    IF samples = <<>> THEN Num(0)
    ELSE Add(linearSum(front(samples)), Mul(lastOf(samples), Num(Len(samples))))

\* sum((i + 1) * s_i) / sum(i + 1) of samples that are not empty
linearMean(samples) ==
    Div(linearSum(samples), Num((Len(samples) * (Len(samples) + 1)) \div 2))

\* C19: after every unlocked recalibration the dit-length estimate is the linearly
\* weighted mean of the samples in its window, the sample at position i (0 = the
\* oldest sample of that category) weighted i + 1; likewise the Farnsworth-dit
\* estimate over its window
C19_WeightedMean ==
    \A k \in 1..Len(decodes) :
        ~decodes[k].before.lockSpeed
        => /\ samplesIn(decodes[k].after.ditLengths) # <<>>
              => decodes[k].after.ditLen = linearMean(samplesIn(decodes[k].after.ditLengths))
           /\ samplesIn(decodes[k].after.fditLengths) # <<>>
              => decodes[k].after.fditLen
                     = linearMean(samplesIn(decodes[k].after.fditLengths))

-----------------------------------------------------------------------------
(* C20 *)

\* C20: in an unlocked MorseAdaptiveDecoder classifying a '/' element leaves the
\* ditLen and fditLen estimates, and hence wpm, fwpm and both thresholds, exactly
\* as they were before that element
C20_WordSpaceExcluded ==
    \A k \in 1..Len(decodes) :
        (decodes[k].character = "/" /\ ~decodes[k].before.lockSpeed)
        => /\ decodes[k].after.ditLen = decodes[k].before.ditLen
           /\ decodes[k].after.fditLen = decodes[k].before.fditLen
           /\ decodes[k].after.wpm = decodes[k].before.wpm
           /\ decodes[k].after.fwpm = decodes[k].before.fwpm
           /\ decodes[k].after.ditDahThreshold = decodes[k].before.ditDahThreshold
           /\ decodes[k].after.dahSpaceThreshold = decodes[k].before.dahSpaceThreshold

-----------------------------------------------------------------------------
(* C21 *)

\* the calls of speedCallback made by the last operation
speedCalls == logged(calls, "speedCallback")

\* C21: every operation that changes the decoder's speed pair (wpm, fwpm), an
\* assignment to wpm, fwpm, ditLen or fditLen or an adaptive recalibration, calls
\* speedCallback, and its last call carries the new wpm and fwpm
C21_SpeedCallback ==
    [][(decoder'.wpm # decoder.wpm \/ decoder'.fwpm # decoder.fwpm)
       => /\ speedCalls' # <<>>
          /\ lastOf(speedCalls').wpm = decoder'.wpm
          /\ lastOf(speedCalls').fwpm = decoder'.fwpm]_vars

-----------------------------------------------------------------------------
(* C22 *)

\* C22: flush translates its morse fragment with the dictionary without prosigns:
\* the text of every message event is the translation of the event's morse by that
\* dictionary, so a token found only among the prosigns ('.-.-') reads '#'
C22_NoProsigns ==
    \A k \in 1..Len(messageEvents) :
        messageEvents[k].message = morse2text(messageEvents[k].morse, FALSE).message

-----------------------------------------------------------------------------
(* C23 *)

\* the labels the step classified, the empty label of a dit space left out
RECURSIVE labels(_)
labels(characters) ==
    IF characters = <<>> THEN <<>>
    ELSE (IF Head(characters) = "" THEN <<>> ELSE <<Head(characters)>>)
         \o labels(Tail(characters))

\* the tokens of a morse fragment that the dictionary does not hold
absentTokens(m) ==
    LET tokens == IF tidyMorse(m) = <<>> THEN <<>> ELSE split(tidyMorse(m), <<>>)
    IN  Cardinality({i \in 1..Len(tokens) : morsepro2textH(join(tokens[i])) = "undefined"})

\* the error markers in a text
hashes(text) == Cardinality({i \in 1..Len(text) : text[i] = "#"})

\* a step whose fragment holds a token absent from the dictionary: one message
\* event with that fragment, a '#' for each such token appended to the message,
\* the buffer consumed but for a trailing silence
C23_Garbled ==
    LET m == labels(tailFrom(decoder'.characters, Len(decoder.characters)))
    IN  absentTokens(m) > 0
        => /\ Len(messageEvents') = 1
           /\ messageEvents'[1].morse = m
           /\ hashes(messageEvents'[1].message) = absentTokens(m)
           /\ decoder'.message = decoder.message \o messageEvents'[1].message
           /\ decoder'.morse = decoder.morse \o m
           /\ decoder'.unusedTimes \in {<<>>, <<lastOf(flushes'[1].unusedTimes)>>}
           /\ decoder'.unusedTimes # <<>> => decoder'.unusedTimes[1] < 0

\* a step taken once the message holds a '#': the fragment it classifies is
\* translated and appended as ever
C23_Afterwards ==
    LET m == labels(tailFrom(decoder'.characters, Len(decoder.characters)))
    IN  (hashes(decoder.message) > 0 /\ m # <<>>)
        => /\ Len(messageEvents') = 1
           /\ messageEvents'[1].message = morse2text(m, TRUE).message
           /\ decoder'.message = decoder.message \o morse2text(m, TRUE).message

\* C23: a token absent from the dictionary never stops the decoder: the flush
\* appends '#' for it to the message, consumes the buffer and emits its message
\* event, and the calls that follow decode as ever
C23_NeverStops == [][C23_Garbled /\ C23_Afterwards]_vars

\* a '#' was decoded, and after it a letter
C23_Witness ==
    /\ RoundTripDone
    /\ \E i \in 1..(Len(decoder.message) - 1) :
           decoder.message[i] = "#" /\ lastOf(decoder.message) \in {"A", "I", "M", "N"}

-----------------------------------------------------------------------------
(* C24 *)

\* the buffer of flush f without the trailing silence it holds back
consumed(f) ==
    LET buffer == afterDiscard(f)
    IN  IF buffer # <<>> /\ lastOf(buffer) < 0
           /\ Lt(Num(-lastOf(buffer)), decoder.dahSpaceThreshold)
        THEN front(buffer) ELSE buffer

\* the morse and the text of a sequence of events, put together
RECURSIVE allMorse(_)
allMorse(events) ==
    IF events = <<>> THEN <<>> ELSE Head(events).morse \o allMorse(Tail(events))

RECURSIVE allMessage(_)
allMessage(events) ==
    IF events = <<>> THEN <<>> ELSE Head(events).message \o allMessage(Tail(events))

\* an event's timings are the signed durations its flush classified, its morse
\* their labels, its message the translation of that morse
C24_Event ==
    \A k \in 1..Len(messageEvents) :
        /\ messageEvents[k].timings = consumed(flushes[k])
        /\ absAll(messageEvents[k].timings)
               = tailFrom(decoder.timings, flushes[k].recorded)
        /\ messageEvents[k].morse
               = labels(tailFrom(decoder.characters, flushes[k].recorded))
        /\ messageEvents[k].message
               = morse2text(messageEvents[k].morse, TRUE).message

\* an operation appends the morse and the text of its events, and nothing else,
\* to the accumulated morse and message
C24_Accumulated ==
    /\ decoder'.morse = decoder.morse \o allMorse(messageEvents')
    /\ decoder'.message = decoder.message \o allMessage(messageEvents')

\* C24: each message event carries what its flush consumed: the signed durations
\* it classified (a held-back trailing silence left out), the concatenation of
\* their labels and the translation of that fragment; and the morse (the message)
\* of all events, in order, is the accumulated morse (message) of the decoder
C24_EventContents ==
    /\ decoder.morse = <<>> /\ decoder.message = <<>>
    /\ [](C24_Event)
    /\ [][C24_Accumulated]_vars

\* a flush classified two durations or more and held back the silence after them
C24_Witness ==
    /\ Len(messageEvents) = 1
    /\ Len(messageEvents[1].timings) >= 2
    /\ Len(afterDiscard(flushes[1])) = Len(messageEvents[1].timings) + 1
    /\ decoder.unusedTimes = <<lastOf(flushes[1].unusedTimes)>>
    /\ decoder.message # <<>>

-----------------------------------------------------------------------------
(* C25 *)

C25_FwpmAtMostWpm == Le(cw.fwpm, cw.wpm)

C25_SettersMatch ==
    /\ op'.name = "wpm" => cw'.wpm = op'.arg
    /\ op'.name = "fwpm" => cw'.fwpm = op'.arg
    /\ (op'.name = "fwpm" /\ Lt(cw.wpm, op'.arg)) => cw'.wpm = op'.arg
    /\ (op'.name = "wpm" /\ Lt(op'.arg, cw.fwpm)) => cw'.fwpm = op'.arg

\* C25: in MorseCW, after construction and after any sequence of assignments of
\* numbers to wpm and fwpm, fwpm <= wpm, and the property just assigned holds the
\* assigned value: an fwpm above wpm raises wpm to it, a wpm below fwpm lowers
\* fwpm to it
C25_SpeedControls == [](C25_FwpmAtMostWpm) /\ [][C25_SettersMatch]_vars

\* wpm was assigned a value below fwpm, which came down with it
C25_Witness ==
    /\ op.name = "wpm" /\ op.arg = Num(7)
    /\ cw.wpm = Num(7) /\ cw.fwpm = Num(7)

-----------------------------------------------------------------------------
(* C26 *)

\* the value the last call returned
returnedValue == lastOf(logged(calls, "return")).value

\* getDuration() has just returned the duration of the message 'PARIS'
parisTimed ==
    /\ op.name = "getDuration"
    /\ cw.message = chars("PARIS")
    /\ cw.morse = chars(".--. .- .-. .. ...")

\* C26: for every speed pair with fwpm <= wpm, the duration of the message
\* 'PARIS' returned by getDuration(), plus one word space, is exactly
\* 60000 / fwpm milliseconds
C26_ParisDuration ==
    (parisTimed /\ Le(cw.fwpm, cw.wpm))
        => Add(returnedValue, wordSpace(cw.wpm, cw.fwpm)) = Div(Num(MS_IN_MINUTE), cw.fwpm)

\* the same where the dit length is a whole number of milliseconds and there is no
\* Farnsworth stretching
C26_WholeDits ==
    (parisTimed /\ cw.fwpm = cw.wpm /\ ditLengthExact(cw.wpm)[2] = 1)
        => Add(returnedValue, wordSpace(cw.wpm, cw.fwpm)) = Div(Num(MS_IN_MINUTE), cw.fwpm)

C26_Witness == parisTimed /\ cw.fwpm = cw.wpm /\ cw.wpm = Num(15)

-----------------------------------------------------------------------------
(* C27 *)

\* fwpm(wpm, ratio(wpm, fwpm)) == fwpm
C27_FwpmOfRatio == op.name = "fwpm" => returnedValue = toDouble(op.arg[2])

\* ratio(wpm, wpm) == 1
C27_RatioOne ==
    (op.name = "ratio" /\ op.arg[1] = op.arg[2]) => returnedValue = quotientDouble(1, 1)

\* fditLength(wpm, wpm) == ditLength(wpm)
C27_SameLengths ==
    (op.name = "fditLength" /\ op.arg[1] = op.arg[2])
        => returnedValue = ditLength(op.arg[1])

\* wpm(ditLength(wpm)) is wpm where 1200 / wpm is whole, and otherwise the speed
\* whose dit is 1200 / wpm rounded to the nearest millisecond
C27_WpmOfDitLength ==
    op.name = "wpm"
        => /\ ditLengthExact(op.arg[1])[2] = 1 => returnedValue = op.arg[1]
           /\ Le(Sub(ditLengthExact(returnedValue), ditLengthExact(op.arg[1])), Rat(1, 2))
           /\ Lt(Sub(ditLengthExact(op.arg[1]), ditLengthExact(returnedValue)), Rat(1, 2))

\* C27: the speed functions are mutually inverse: for all wpm > 0 and
\* 0 < fwpm <= wpm, fwpm(wpm, ratio(wpm, fwpm)) == fwpm, and ratio(wpm, wpm) == 1
\* so that fditLength(wpm, wpm) == ditLength(wpm); and wpm(ditLength(wpm)) differs
\* from wpm only by the rounding of the dit length to whole milliseconds
C27_Inverse ==
    /\ C27_FwpmOfRatio
    /\ C27_RatioOne
    /\ C27_SameLengths
    /\ C27_WpmOfDitLength

-----------------------------------------------------------------------------
(* C28 *)

threw(log) == logged(log, "throw") # <<>>

\* the best-effort translation of the input of the translate call just made
bestEffort ==
    IF inputIsMorse(op'.arg[1], op'.arg[2]) THEN morse2text(op'.arg[1], cw.useProsigns)
    ELSE text2morse(op'.arg[1], cw.useProsigns)

\* translate throws exactly when the translation t has an error, and returns the
\* output otherwise
C28_Throws(t) ==
    /\ threw(calls') <=> t.hasError
    /\ threw(calls') <=> hashes(t.morse) > 0
    /\ Len(calls') = 1
    /\ ~threw(calls') => calls'[1] = [fn |-> "return", value |-> cw'.output]

\* thrown or not, the fields hold the translation t of the new input
C28_Fields(t) ==
    /\ cw'.morse = t.morse
    /\ cw'.message = t.message
    /\ cw'.inputWasMorse = bool(inputIsMorse(op'.arg[1], op'.arg[2]))
    /\ cw'.hasError = bool(t.hasError)
    /\ cw'.input = (IF cw'.inputWasMorse = "true" THEN cw'.morse ELSE cw'.message)
    /\ cw'.output = (IF cw'.inputWasMorse = "true" THEN cw'.message ELSE cw'.morse)

C28_Translated(t) == evaluated(t, t, C28_Throws(t) /\ C28_Fields(t))

\* clearError() sets hasError to false and leaves no '#' in morse
C28_Cleared ==
    op'.name = "clearError" => cw'.hasError = "false" /\ hashes(cw'.morse) = 0

\* C28: MorseMessage.translate throws exactly when the translation has an error;
\* even when it throws, morse, message, input, output, inputWasMorse and hasError
\* hold the best-effort translation of the new input, never the previous one; a
\* following clearError() sets hasError to false and leaves no '#' in morse
C28_ErrorHandling ==
    [][(op'.name = "translate" => C28_Translated(bestEffort)) /\ C28_Cleared]_vars

\* translate('a~b') threw after an earlier translation, and clearError() followed
C28_Witness ==
    /\ op.name = "clearError"
    /\ nops = 3
    /\ cw.inputWasMorse = "false"
    /\ cw.message = chars("AB")
    /\ cw.morse = chars(".-  -...")

-----------------------------------------------------------------------------
(* C29 *)

\* the character c given to a duration (its magnitude) agrees with the thresholds
\* of the estimates e
C29_Label(duration, c, e) ==
    /\ c \in {".", ""} => Lt(Num(duration), e.ditDahThreshold)
    /\ c = "-" => Le(e.ditDahThreshold, Num(duration))
    /\ c = " " => /\ Le(e.ditDahThreshold, Num(duration))
                  /\ Lt(Num(duration), e.dahSpaceThreshold)
    /\ c = "/" => Le(e.dahSpaceThreshold, Num(duration))

\* the estimates `after` are those of `before` recalibrated with the element: its
\* sample is in the window, the dit length is the weighted mean of the window and
\* the threshold follows the dit length
C29_Recalibrated(d, before, after, sums) ==
    /\ after.ditLengths
           = sliceLast(Append(before.ditLengths, ditSample(d.duration, d.character)),
                       decoder.bufferSize)
    /\ sums[2] # 0 => /\ after.ditLen = Div(sums[1], Num(sums[2]))
                      /\ after.ditDahThreshold = Mul(Num(2), after.ditLen)
                      /\ Le(after.ditLen, after.fditLen)

\* the k-th element classified by the last operation: it was classified with the
\* thresholds the element before it left, and left the estimates recalibrated
C29_Element(k) ==
    /\ k > 1 => decodes[k].before = decodes[k - 1].after
    /\ C29_Label(decodes[k].duration, decodes[k].character, decodes[k].before)
    /\ ~decodes[k].before.lockSpeed
           => C29_Recalibrated(decodes[k], decodes[k].before, decodes[k].after,
                               weightedSum(decodes[k].after.ditLengths, 0,
                                           decoder.bufferSize))

\* C29: in an unlocked MorseAdaptiveDecoder recalibration happens after every
\* classified element, not once per flush: within one flush the thresholds that
\* classify the k-th buffered duration are those of the unit lengths recomputed
\* from the first k - 1 durations of that flush
C29_PerElement == fedOrFlushed => \A k \in 1..Len(decodes) : C29_Element(k)

\* one flush of an unlocked decoder at 20 wpm classified a tone of 90 ms as a dit
\* and then a silence of 420 ms as a character space: the thresholds the flush
\* started with (120 and 300) make it a word space, those after the tone (180 and
\* 450) do not
C29_Witness ==
    /\ fedOrFlushed
    /\ Len(decodes) >= 2
    /\ ~decodes[1].before.lockSpeed
    /\ decodes[1].before.dahSpaceThreshold = Num(300)
    /\ decodes[1].duration = 90 /\ decodes[1].character = "."
    /\ decodes[2].duration = 420 /\ decodes[2].character = " "
    /\ decodes[2].before.dahSpaceThreshold = Num(450)

-----------------------------------------------------------------------------
(* C30 *)

stopped(log) == logged(log, "soundStoppedCallback")

notes(log) == logged(log, "note")

\* stop(), called or run by the timer at the end of the sequence, on a player
\* that is playing, paused or not: both flags false, one soundStoppedCallback
C30_StopsPlaying ==
    (op'.name \in {"stop", "stopTimer"} /\ player.isPlaying)
        => /\ ~player'.isPlaying
           /\ ~player'.isPaused
           /\ Len(stopped(calls')) = 1

\* stop() on a player that is not playing: nothing changes, no callback
C30_StopsNothing ==
    (op'.name = "stop" /\ ~player.isPlaying) => player' = player /\ calls' = <<>>

\* play() on a player that stop() has left, a sequence loaded: it plays, and the
\* first element it schedules, at once or later, is the one of index 0
C30_PlaysFromStart ==
    (op'.name = "play" /\ ~player.isPlaying /\ Len(player.cTimings) > 0)
        => /\ player'.isPlaying
           /\ ~player'.isPaused
           /\ player'.now = 0
           /\ IF notes(calls') = <<>> THEN player'.nextNote = 0
              ELSE /\ notes(calls')[1].index = 0
                   /\ notes(calls')[1].start = player'.startPadding

\* C30: MorsePlayerWAA.stop(): when a sequence is playing (paused included) it
\* sets isPlaying and isPaused to false and invokes soundStoppedCallback exactly
\* once; when nothing is playing it changes nothing and invokes no callback; a
\* play() after stop() starts again from note index 0
C30_Stop == [][C30_StopsPlaying /\ C30_StopsNothing /\ C30_PlaysFromStart]_vars

\* play() after stop() had stopped a playing sequence: the note of index 0 is
\* scheduled again
C30_Witness ==
    /\ op.name = "play"
    /\ Len(recent) = 2
    /\ recent[1].name = "stop" /\ recent[1].wasPlaying
    /\ recent[2].name = "play" /\ ~recent[2].wasPlaying
    /\ player.isPlaying
    /\ notes(calls) # <<>>
    /\ notes(calls)[1].index = 0

-----------------------------------------------------------------------------
(* C31 *)

\* pause() has just been called on a player that was playing
justPaused == op'.name = "pause" /\ player.isPlaying

\* C31: after pause() is called while a sequence is playing, the next element
\* to be scheduled on resume is a beep: nextNote is a valid index of the loaded
\* sequence and isNote[nextNote] is true
C31_PauseOnBeep ==
    [][justPaused
          => /\ player'.nextNote >= 0
             /\ player'.nextNote < player'.sequenceLength
             /\ player'.isNote[player'.nextNote + 1]]_vars

\* the same where the element to schedule next is a beep, or a silence that a
\* beep of the same sequence follows
C31_BeepAhead ==
    [][(justPaused /\ (noteAt(player, player.nextNote)
                          \/ noteAt(player, player.nextNote + 1)))
          => noteAt(player', player'.nextNote)]_vars

-----------------------------------------------------------------------------
(* C32 *)

\* the sequenceStartCallback timeouts the last operation set, and the starts of
\* the sequence it scheduled: the sequences loaded begin with a beep
startTimeouts(log) == logged(log, "setTimeout")

RECURSIVE firstNotes(_)
firstNotes(log) ==
    IF log = <<>> THEN <<>>
    ELSE (IF Head(log).fn = "note" /\ Head(log).index = 0 THEN <<Head(log)>> ELSE <<>>)
             \o firstNotes(Tail(log))

\* C32: MorsePlayerWAA schedules sequenceStartCallback once each time the loaded
\* sequence starts, on every playFromStart() that begins playback and on every
\* loop iteration or switch to the queued next sequence, whatever the sequence
\* length relative to the look-ahead time
C32_StartEachTime ==
    [][Len(startTimeouts(calls')) = Len(firstNotes(calls'))]_vars

\* the same for the first start on a new player
C32_FirstStart ==
    [][(op'.name \in {"play", "playFromStart"} /\ ~player.isPlaying
          /\ player.nextNote = -1 /\ firstNotes(calls') # <<>>)
          => /\ Len(startTimeouts(calls')) = 1
             /\ startTimeouts(calls')[1].at = firstNotes(calls')[1].start]_vars

-----------------------------------------------------------------------------
(* C33 *)

\* an operation of the keyer sent an element (it played a tone)
sentElement(r) == logged(r.log, "playTone") # <<>>

\* the last four operations: one that sent an element, then three checks by the
\* timer that found no key pressed
idleRun ==
    /\ Len(recent) = 4
    /\ sentElement(recent[1])
    /\ \A i \in 2..4 : recent[i].name = "check" /\ ~sentElement(recent[i])

\* the silence the three checks passed to the decoder, and the events it emitted
RECURSIVE total(_)
total(entries) ==
    IF entries = <<>> THEN 0 ELSE Head(entries).duration + total(Tail(entries))

idleLog == recent[2].log \o recent[3].log \o recent[4].log

\* the idle sequence has run on a MorseKeyer: silence of 7 Farnsworth dits, the
\* character and then the word space emitted, the keyer stopped, no timer pending
C33_IdleSequence ==
    (idleRun /\ keyer.class = "MorseKeyer")
        => /\ Len(silencePushed(idleLog)) = 3
           /\ total(silencePushed(idleLog)) = -(7 * keyer.fditLen)
           /\ Len(logged(idleLog, "messageCallback")) = 2
           /\ logged(recent[2].log, "messageCallback") = <<>>
           /\ LET character == logged(recent[3].log, "messageCallback")[1]
                  space == logged(recent[4].log, "messageCallback")[1]
              IN  /\ Len(character.message) = 1
                  /\ character.message # <<" ">>
                  /\ \A i \in 1..Len(character.morse) : character.morse[i] # "/"
                  /\ space.morse = <<"/">>
                  /\ space.message = <<" ">>
           /\ ~keyer.playing
           /\ ~keyer.timer.set
           /\ keyer.spaceCounter = 3

\* start() while _state.playing is true has no effect
C33_StartWhilePlaying ==
    (op'.name = "start" /\ keyer.playing)
        => /\ keyer' = keyer /\ decoder' = decoder /\ player' = player
           /\ calls' = <<>>

\* C33: MorseKeyer idle sequence: once keyCallback keeps returning 0 after an
\* element was sent (timers firing exactly on time), the keyer performs exactly
\* three further checks, pushing silence totalling 7 Farnsworth dits to the
\* decoder so that the decoder first emits the completed character and then a
\* word space, after which the keyer is stopped with no timer pending; a start()
\* call while _state.playing is true has no effect
C33_Idle == [][C33_StartWhilePlaying /\ C33_IdleSequence']_vars

\* the idle sequence after a dah sent at 20 wpm with Farnsworth speed 10: "T"
\* and then the word space
C33_Witness ==
    /\ idleRun
    /\ keyer.class = "MorseKeyer" /\ keyer.fditLen = 218
    /\ logged(recent[3].log, "messageCallback")[1].message = <<"T">>
    /\ total(silencePushed(idleLog)) = -1526

\* start() was called on a keyer that was playing
C33_Started == op.name = "start" /\ Len(recent) > 0 /\ recent[Len(recent)].wasPlaying

-----------------------------------------------------------------------------
(* C34 *)

\* an operation ran _check with keyCallback returning key
ranCheck(r, key) ==
    /\ logged(r.log, "check") # <<>>
    /\ logged(r.log, "check")[1].key = key

\* the element an operation sent: "true" for a dit, "false" for a dah, "undefined"
\* for none
elementSent(r) ==
    IF ~sentElement(r) THEN "undefined"
    ELSE IF logged(r.log, "playTone")[1].duration = keyer.ditLen THEN "true"
    ELSE "false"

iambic == keyer.class = "MorseIambicKeyer"

\* both paddles held over two successive checks: the elements differ
C34_Alternates ==
    \A i \in 1..(Len(recent) - 1) :
        (ranCheck(recent[i], 3) /\ ranCheck(recent[i + 1], 3)
           /\ sentElement(recent[i]) /\ sentElement(recent[i + 1]))
            => elementSent(recent[i + 1]) # elementSent(recent[i])

\* both paddles held with no element before: the first check of the keyer, or a
\* check after one that completed and sent nothing
C34_First ==
    /\ (nops = 1 /\ ranCheck(recent[1], 3)) => elementSent(recent[1]) = keyer.ditGoesFirst
    /\ \A i \in 1..(Len(recent) - 1) :
           (ranCheck(recent[i + 1], 3) /\ logged(recent[i].log, "check") # <<>>
              /\ ~sentElement(recent[i]) /\ logged(recent[i].log, "throw") = <<>>
              /\ sentElement(recent[i + 1]))
               => elementSent(recent[i + 1]) = keyer.ditGoesFirst

\* iambic B: the paddles released after a squeeze
C34_ReleaseB ==
    keyer.iambicA = "false"
        => /\ \A i \in 1..(Len(recent) - 1) :
                  (ranCheck(recent[i], 3) /\ sentElement(recent[i])
                     /\ ranCheck(recent[i + 1], 0))
                      => elementSent(recent[i + 1]) = notOf(elementSent(recent[i]))
           /\ \A i \in 1..(Len(recent) - 1) :
                  (ranCheck(recent[i], 0) /\ ranCheck(recent[i + 1], 0))
                      => ~sentElement(recent[i + 1])

\* iambic A: nothing is sent when no paddle is pressed
C34_ReleaseA ==
    keyer.iambicA = "true"
        => \A i \in 1..Len(recent) : ranCheck(recent[i], 0) => ~sentElement(recent[i])

C34_WitnessA ==
    /\ keyer.iambicA = "true"
    /\ Len(recent) >= 3
    /\ ranCheck(recent[1], 3) /\ elementSent(recent[1]) = "true"
    /\ ranCheck(recent[2], 3) /\ elementSent(recent[2]) = "false"
    /\ ranCheck(recent[3], 0) /\ elementSent(recent[3]) = "undefined"

-----------------------------------------------------------------------------
(* C35 *)

\* C35: after construction and after any sequence of assignments to the
\* MorseListener filter properties, the filters stay ordered and in range:
\* 1 <= filterBinLow <= filterBinHigh <= freqBins,
\* volumeFilterMin <= volumeFilterMax <= 0, and 0 <= volumeThreshold <= 255
C35_FiltersOrdered ==
    /\ listener.filterBinLow # "undefined" /\ ~isNaN(listener.filterBinLow)
    /\ listener.filterBinHigh # "undefined" /\ ~isNaN(listener.filterBinHigh)
    /\ Le(Num(1), listener.filterBinLow)
    /\ Le(listener.filterBinLow, listener.filterBinHigh)
    /\ Le(listener.filterBinHigh, listener.freqBins)
    /\ ~isNaN(listener.minDecibels) /\ ~isNaN(listener.maxDecibels)
    /\ Le(listener.minDecibels, listener.maxDecibels)
    /\ Le(listener.maxDecibels, Num(0))
    /\ listener.volumeThreshold # "undefined" /\ ~isNaN(listener.volumeThreshold)
    /\ Le(Num(0), listener.volumeThreshold)
    /\ Le(listener.volumeThreshold, Num(255))

\* volumeFilterMax was assigned a value below volumeFilterMin, which followed it
\* down, after a frequencyFilterMin above frequencyFilterMax had raised it
C35_Witness ==
    /\ op.name = "volumeFilterMax" /\ op.arg = Num(-100)
    /\ listener.minDecibels = Num(-100) /\ listener.maxDecibels = Num(-100)
    /\ listener.filterBinLow = listener.freqBins
    /\ listener.filterBinHigh = listener.freqBins

-----------------------------------------------------------------------------
(* C36 *)

\* C36: after every return from flush (whether called explicitly or by addTiming)
\* the unused-time buffer is either empty or holds exactly one entry, and that
\* entry is silence (negative).
C36_BufferAfterFlush ==
    flushes # <<>> =>
        \/ decoder.unusedTimes = <<>>
        \/ Len(decoder.unusedTimes) = 1 /\ decoder.unusedTimes[1] < 0

\* an explicit flush found a tone, a silence and a tone and left the buffer empty
C36_Witness ==
    /\ op.name = "flush"
    /\ Len(flushes[1].unusedTimes) = 3
    /\ lastOf(flushes[1].unusedTimes) > 0
    /\ flushes[1].unusedTimes[2] < 0
    /\ decoder.unusedTimes = <<>>
    /\ messageEvents # <<>>

\* addTiming flushed a buffer of three entries and kept its closing silence
C36_Kept ==
    /\ op.name = "addTiming"
    /\ flushes # <<>>
    /\ Len(flushes[1].unusedTimes) = 3
    /\ decoder.unusedTimes = <<op.arg>>

-----------------------------------------------------------------------------
(* C37 *)

RECURSIVE sumOf(_)
sumOf(durations) ==
    IF durations = <<>> THEN 0 ELSE Abs(Head(durations)) + sumOf(Tail(durations))

\* the kept entry of the buffer was recorded as a word space by the last flush
keptWordSpace ==
    /\ Len(decoder.unusedTimes) = 1
    /\ decoder.unusedTimes[1] < 0
    /\ decoder.timings # <<>>
    /\ lastOf(decoder.characters) = "/"
    /\ lastOf(decoder.timings) = -decoder.unusedTimes[1]

\* the durations the last operation recorded
recordedBy(before, after) == tailFrom(after.timings, Len(before.timings))

\* C37: no input time is counted twice: over any sequence of addTiming/flush calls
\* the sum of all recorded durations never exceeds the sum of the magnitudes of
\* all durations passed to addTiming
C37_SumBounded == sumOf(decoder.timings) <= sumOf(script)

\* C37, of the kept silence: a silence kept in the buffer after being classified
\* as a word space is never classified again: the next flush finds it first in
\* the buffer (grown by the silence that followed) and records no more than the
\* entries after it
C37_KeptNotReclassified ==
    (keptWordSpace /\ logged(calls', "flush") # <<>>) =>
        /\ logged(calls', "flush")[1].unusedTimes[1] <= decoder.unusedTimes[1]
        /\ sumOf(recordedBy(decoder, decoder')) <=
               sumOf(Tail(logged(calls', "flush")[1].unusedTimes))

-----------------------------------------------------------------------------
(* C38 *)

\* the characters of the record put together in order
RECURSIVE concatenated(_)
concatenated(characters) ==
    IF characters = <<>> THEN <<>>
    ELSE (IF Head(characters) = "" THEN <<>> ELSE <<Head(characters)>>)
         \o concatenated(Tail(characters))

\* how many entries of a sequence are v
count(v, s) == Cardinality({i \in 1..Len(s) : s[i] = v})

\* C38: the classification record is always consistent with the accumulated
\* output: the timings and characters arrays have the same length, every recorded
\* duration is strictly positive, the accumulated morse string is the
\* concatenation of the characters array in order, and the dits, dahs, ditSpaces,
\* dahSpaces and spaces accessors partition the recorded durations
C38_RecordConsistent ==
    /\ Len(decoder.timings) = Len(decoder.characters)
    /\ \A i \in 1..Len(decoder.timings) : decoder.timings[i] > 0
    /\ decoder.morse = concatenated(decoder.characters)
    /\ Len(dits(decoder)) + Len(dahs(decoder)) + Len(ditSpaces(decoder))
           + Len(dahSpaces(decoder)) + Len(spaces(decoder)) = Len(decoder.timings)
    /\ \A i \in 1..Len(decoder.timings) :
           count(decoder.timings[i], decoder.timings) =
               count(decoder.timings[i], dits(decoder))
               + count(decoder.timings[i], dahs(decoder))
               + count(decoder.timings[i], ditSpaces(decoder))
               + count(decoder.timings[i], dahSpaces(decoder))
               + count(decoder.timings[i], spaces(decoder))

\* a dit, a dit space, a dah and a word space are in the record, and the morse
\* holds the three that have a character
C38_Witness ==
    /\ decoder.characters = <<".", "", "-", "/">>
    /\ decoder.morse = <<".", "-", "/">>
    /\ dits(decoder) = <<60>>
    /\ ditSpaces(decoder) = <<60>>
    /\ spaces(decoder) = <<300>>

-----------------------------------------------------------------------------
(* C39 *)

\* the element d was pushed into both sample windows, the oldest entries evicted
C39_Pushed(d) ==
    /\ d.after.ditLengths
           = sliceLast(Append(d.before.ditLengths, ditSample(d.duration, d.character)),
                       decoder.bufferSize)
    /\ d.after.fditLengths
           = sliceLast(Append(d.before.fditLengths, fditSample(d.duration, d.character)),
                       decoder.bufferSize)

\* the element d of an unlocked decoder left the dit length at the weighted mean
\* of the window it left
C39_Recalibrated(d, sums) ==
    (~d.before.lockSpeed /\ sums[2] # 0) => d.after.ditLen = Div(sums[1], Num(sums[2]))

\* the k-th element classified by the step: it starts from the windows the element
\* before it left, or, for the first one, the windows of the decoder before the call
C39_Element(k) ==
    /\ decodes'[k].before.ditLengths
           = IF k = 1 THEN decoder.ditLengths ELSE decodes'[k - 1].after.ditLengths
    /\ decodes'[k].before.fditLengths
           = IF k = 1 THEN decoder.fditLengths ELSE decodes'[k - 1].after.fditLengths
    /\ C39_Pushed(decodes'[k])
    /\ C39_Recalibrated(decodes'[k],
                        weightedSum(decodes'[k].after.ditLengths, 0, decoder.bufferSize))

\* C39: while lockSpeed is true the adaptive decoder still records samples: every
\* classified element is pushed into the sample windows (evicting old entries),
\* and setting or clearing lockSpeed leaves the windows as they are, so the first
\* recalibration after lockSpeed is cleared uses the samples observed during the
\* lock rather than resuming from the windows as they were when the lock was set
C39_SamplesWhileLocked ==
    [][/\ op'.name = "lockSpeed" =>
              /\ decoder'.ditLengths = decoder.ditLengths
              /\ decoder'.fditLengths = decoder.fditLengths
       /\ op'.name \in {"addTiming", "flush"} =>
              /\ \A k \in 1..Len(decodes') : C39_Element(k)
              /\ decodes' = <<>> =>
                     /\ decoder'.ditLengths = decoder.ditLengths
                     /\ decoder'.fditLengths = decoder.fditLengths]_vars

\* a decoder at 20 wpm classified a dit of 90 ms while its speed was locked, the
\* lock was cleared, and the word space classified next recalibrated the dit
\* length to 90 ms, the sample taken during the lock
C39_Witness ==
    /\ ~decoder.lockSpeed
    /\ decoder.timings = <<90, 420>>
    /\ Len(decodes) = 1
    /\ decodes[1].character = "/"
    /\ ~decodes[1].before.lockSpeed
    /\ decodes[1].before.ditLen = Num(60)
    /\ decodes[1].before.ditLengths = <<Num(90)>>
    /\ decodes[1].after.ditLen = Num(90)

-----------------------------------------------------------------------------
(* C40 *)

\* 0 <= nextNote <= sequenceLength while the player plays
C40_NextNoteInRange ==
    player.isPlaying => (0 <= player.nextNote /\ player.nextNote <= player.sequenceLength)

\* a player that plays and is not paused has something that will end the playback:
\* the timeout that calls stop(), or the interval timer with notes left to schedule
C40_EndInSight ==
    (player.isPlaying /\ ~player.isPaused) =>
        \/ player.stopTimer.set
        \/ player.timer /\ player.nextNote < player.sequenceLength /\ ~player.tZero.nan

\* a player that plays and is not paused is later stopped or paused
C40_Terminates ==
    (player.isPlaying /\ ~player.isPaused) ~> (~player.isPlaying \/ player.isPaused)

\* the player stops playing only with soundStoppedCallback
C40_StoppedCallback ==
    [][(player.isPlaying /\ ~player'.isPlaying) =>
           logged(calls', "soundStoppedCallback") # <<>>]_vars

\* C40: playback of a non-looping sequence with no queued next sequence always
\* ends: from any interleaving of play, pause and resume calls in which the player
\* is not left paused, the player eventually reaches isPlaying = false with
\* soundStoppedCallback invoked, and 0 <= nextNote <= sequenceLength holds
\* throughout (including when pause() is called after the last note has been
\* scheduled)
C40_PlaybackEnds == C40_Terminates /\ C40_StoppedCallback /\ []C40_NextNoteInRange

\* a sequence played to its end without a pause: the stop timer fired
C40_PlayedToEnd ==
    /\ op.name = "stopTimer"
    /\ ~player.isPlaying
    /\ logged(calls, "soundStoppedCallback") # <<>>

====
